---- MODULE Spec2Model ----
(***************************************************************************)
(* Verification model of the agentic-investor tool server: the resilient   *)
(* fetch layer (api_retry around yf_call / fetch_json / fetch_text), the   *)
(* validators and the tabular normaliser (to_clean_csv).                   *)
(*                                                                         *)
(* Text is modelled as a sequence of characters, each character one token, *)
(* so that case mapping, trimming, substring search and date parsing are   *)
(* computed and not assumed.                                               *)
(***************************************************************************)
EXTENDS Integers, Sequences, FiniteSets, TLC

VARIABLES
    rdef,       \* which definition of yf_call / fetch_json / fetch_text runs
    pc,         \* position of the running call: idle, calling, sleeping, done
    attempts,   \* number of invocations of the wrapped operation so far
    history,    \* the outcomes of those invocations, in order
    sleeps,     \* the waits slept between the attempts, in order
    log,        \* attempt numbers reported by after_log at WARNING level
    result,     \* what the caller receives
    pfn,        \* pure function under evaluation
    pin,        \* its input
    pout,       \* its output
    tool,       \* the tool whose execute runs
    tin,        \* its validated input
    env,        \* what the providers and the process environment hold
    req,        \* the query execute hands to the provider
    epc,        \* position of execute: idle, fetching, joining, done
    eout,       \* what execute returns or raises
    futures,    \* results of the sub-fetches submitted to the worker pool
    inv,        \* the invocations in flight on the event loop
    loop,       \* the invocation that holds the event loop thread, or Free
    registry,   \* the registered tool names, in registration order
    phase,      \* startup (registration) or serving (dispatch)
    envelope    \* the register and dispatch calls so far, with their outcomes

retryVars == <<rdef, pc, attempts, history, sleeps, log, result>>
pureVars == <<pfn, pin, pout>>
toolVars == <<tool, tin, env, req, epc, eout, futures>>
loopVars == <<inv, loop>>
regVars == <<registry, phase, envelope>>
extVars == <<toolVars, loopVars, regVars>>
vars == <<rdef, pc, attempts, history, sleeps, log, result, pfn, pin, pout,
          tool, tin, env, req, epc, eout, futures, inv, loop,
          registry, phase, envelope>>

----------------------------------------------------------------------------
(* Generic helpers *)

Max(a, b) == IF a >= b THEN a ELSE b
Min(a, b) == IF a <= b THEN a ELSE b

RECURSIVE Pow(_, _)
Pow(b, e) == IF e = 0 THEN 1 ELSE b * Pow(b, e - 1)

Last(s) == s[Len(s)]

None == [tag |-> "None"]
Some(v) == [tag |-> "Some", v |-> v]

\* the event-loop thread is held by no invocation
Free == 0

\* no tool is executing, no invocation is in flight, nothing is registered
ToolsIdle ==
    /\ tool = "none" /\ tin = None /\ env = None /\ req = None
    /\ epc = "idle" /\ eout = None /\ futures = None
LoopIdle == inv = <<>> /\ loop = Free
RegistryIdle == registry = <<>> /\ phase = "off" /\ envelope = <<>>

\* result of a call: a returned value or a raised exception
Ok(v) == [ok |-> TRUE, v |-> v]
Raise(type, msg) == [ok |-> FALSE, type |-> type, msg |-> msg]

----------------------------------------------------------------------------
(* Python str operations on character sequences *)

\* str.lower(), per character.  KELVIN is U+212A KELVIN SIGN, whose
\* lowercase is the ASCII letter k.
LowerChar(c) ==
    CASE c = "A" -> "a"
      [] c = "K" -> "k"
      [] c = "T" -> "t"
      [] c = "R" -> "r"
      [] c = "KELVIN" -> "k"
      [] OTHER -> c

\* str.upper(), per character.  The Kelvin sign is already uppercase.
UpperChar(c) ==
    CASE c = "a" -> "A"
      [] c = "k" -> "K"
      [] c = "t" -> "T"
      [] c = "r" -> "R"
      [] OTHER -> c

StrLower(s) == [i \in 1..Len(s) |-> LowerChar(s[i])]
StrUpper(s) == [i \in 1..Len(s) |-> UpperChar(s[i])]

IsSpace(c) == c \in {" ", "\t"}

RECURSIVE LStrip(_)
LStrip(s) == IF s # <<>> /\ IsSpace(Head(s)) THEN LStrip(Tail(s)) ELSE s

RECURSIVE RStrip(_)
RStrip(s) ==
    IF s # <<>> /\ IsSpace(Last(s)) THEN RStrip(SubSeq(s, 1, Len(s) - 1)) ELSE s

\* str.strip()
StrStrip(s) == RStrip(LStrip(s))

\* term in s
Contains(s, term) ==
    \E i \in 0..(Len(s) - Len(term)) : SubSeq(s, i + 1, i + Len(term)) = term

----------------------------------------------------------------------------
(* Resilient fetch layer *)

\* stop_after_attempt(3)
MaxAttempts == 3
\* wait_exponential(multiplier=2.0, min=2.0, max=30.0)
WaitMultiplier == 2
WaitMin == 2
WaitMax == 30

\* The definitions of the helpers, by module.
Decorated ==
    { "agentic_investor.utils.yfinance_helpers.yf_call",
      "investor_agent.utils.http_client.fetch_json",
      "investor_agent.utils.http_client.fetch_text",
      "investor_agent.server.fetch_json",
      "investor_agent.server.fetch_text",
      "investor_agent.server.yf_call" }

Undecorated ==
    { "investor_agent.tools.cnn_fear_greed.fetch_json",
      "investor_agent.tools.nasdaq_earnings_calendar.fetch_json",
      "investor_agent.tools.market_movers.fetch_text",
      "investor_agent.tools.price_history.yf_call",
      "investor_agent.tools.institutional_holders.yf_call",
      "investor_agent.tools.earnings_history.yf_call",
      "investor_agent.tools.insider_trades.yf_call" }

Defs == Decorated \cup Undecorated

\* An exception: its class, its status_code attribute if it has one, and
\* str(e).
Exc(type, hasStatus, status, msg) ==
    [type |-> type, hasStatus |-> hasStatus, status |-> status, msg |-> msg]

Errors ==
    { Exc("YFRateLimitError", FALSE, 0, <<"l", "i", "m", "i", "t", "e", "d">>),
      Exc("APIError", TRUE, 503, <<"d", "o", "w", "n">>),
      Exc("APIError", TRUE, 404, <<"g", "o", "n", "e">>),
      Exc("ReadTimeout", FALSE, 0, <<"T", "i", "m", "e", "o", "u", "t">>),
      Exc("ConnectError", FALSE, 0,
          <<"c", "o", "n", "n", "e", "c", "t", "i", "o", "n">>),
      Exc("HTTPStatusError", FALSE, 0, <<"4", "2", "9">>),
      Exc("HTTPStatusError", FALSE, 0, <<"4", "0", "4">>),
      Exc("ValueError", FALSE, 0, <<"n", "o", " ", "d", "a", "t", "a">>),
      Exc("ValueError", FALSE, 0, <<"b", "a", "d", " ", "5", "d">>) }

\* What one invocation of the wrapped operation produces.
Success == [ok |-> TRUE, v |-> "payload"]
Failure(e) == [ok |-> FALSE, e |-> e]
Outcomes == {Success} \cup {Failure(e) : e \in Errors}

RetryTerms ==
    { <<"r", "a", "t", "e", " ", "l", "i", "m", "i", "t">>,
      <<"t", "o", "o", " ", "m", "a", "n", "y", " ",
        "r", "e", "q", "u", "e", "s", "t", "s">>,
      <<"t", "e", "m", "p", "o", "r", "a", "r", "i", "l", "y", " ",
        "b", "l", "o", "c", "k", "e", "d">>,
      <<"t", "i", "m", "e", "o", "u", "t">>,
      <<"c", "o", "n", "n", "e", "c", "t", "i", "o", "n">>,
      <<"n", "e", "t", "w", "o", "r", "k">>,
      <<"t", "e", "m", "p", "o", "r", "a", "r", "y">>,
      <<"5">>,
      <<"4", "2", "9">>,
      <<"5", "0", "2">>,
      <<"5", "0", "3">>,
      <<"5", "0", "4">> }

\* the predicate given to retry_if_exception
RetryIfNever(e) == FALSE
RetryIf(e) ==
    \/ e.type = "YFRateLimitError"
    \/ (e.hasStatus /\ e.status >= 500)
    \/ \E term \in RetryTerms : Contains(StrLower(e.msg), term)

\* stop_after_attempt(3): stop once attempt_number >= 3
StopAfterAttemptLate(n) == n >= MaxAttempts + 1
StopAfterAttempt(n) == n >= MaxAttempts

\* tenacity wait_exponential.__call__ for attempt_number n:
\*   max(max(0, min), min(multiplier * exp_base ** (n - 1), max)),
\* exp_base being 2
WaitExponentialFlat(n) == WaitMin
WaitExponential(n) ==
    Max(Max(0, WaitMin), Min(WaitMultiplier * Pow(2, n - 1), WaitMax))

\* tenacity raises RetryError (reraise defaults to False) around the last
\* attempt once the stop condition holds.
RetryError(e) == [ok |-> FALSE, type |-> "RetryError", cause |-> e]
Raised(e) == [ok |-> FALSE, type |-> e.type, cause |-> e]
Returned(v) == [ok |-> TRUE, v |-> v]
NoResult == [ok |-> FALSE, type |-> "pending"]

----------------------------------------------------------------------------
(* Validators *)

MaxTickerLen == 3

TickerChars == {"a", "k", "K", "KELVIN", " ", "1"}

RECURSIVE StringsUpTo(_, _)
StringsUpTo(chars, n) ==
    IF n = 0 THEN {<<>>}
    ELSE LET shorter == StringsUpTo(chars, n - 1) IN
         shorter \cup {Append(t, c) : t \in shorter, c \in chars}

TickerStrings == StringsUpTo(TickerChars, MaxTickerLen)

\* validate_ticker
validate_ticker_nostrip(ticker) ==
    LET t == StrUpper(ticker) IN
    IF t = <<>> THEN Raise("ValueError", <<"Ticker symbol cannot be empty">>)
    ELSE Ok(t)
validate_ticker(ticker) ==
    LET t == StrStrip(StrUpper(ticker)) IN
    IF t = <<>> THEN Raise("ValueError", <<"Ticker symbol cannot be empty">>)
    ELSE Ok(t)

Digits == {"0", "1", "2", "3", "4", "5", "6", "7", "8", "9"}
DigitVal(c) ==
    CASE c = "0" -> 0 [] c = "1" -> 1 [] c = "2" -> 2 [] c = "3" -> 3
      [] c = "4" -> 4 [] c = "5" -> 5 [] c = "6" -> 6 [] c = "7" -> 7
      [] c = "8" -> 8 [] c = "9" -> 9

AllDigits(s) == \A i \in 1..Len(s) : s[i] \in Digits

RECURSIVE ToInt(_)
ToInt(s) == IF s = <<>> THEN 0
            ELSE 10 * ToInt(SubSeq(s, 1, Len(s) - 1)) + DigitVal(Last(s))

\* the text before the first sep, and the text after it
Before(s, sep) ==
    LET idx == {i \in 1..Len(s) : s[i] = sep} IN
    IF idx = {} THEN s
    ELSE SubSeq(s, 1, (CHOOSE i \in idx : \A j \in idx : i <= j) - 1)
After(s, sep) ==
    LET idx == {i \in 1..Len(s) : s[i] = sep} IN
    IF idx = {} THEN <<>>
    ELSE SubSeq(s, (CHOOSE i \in idx : \A j \in idx : i <= j) + 1, Len(s))
Count(s, sep) == Cardinality({i \in 1..Len(s) : s[i] = sep})

IsLeap(y) == (y % 4 = 0 /\ y % 100 # 0) \/ y % 400 = 0
DaysInMonth(y, m) ==
    IF m = 2 THEN (IF IsLeap(y) THEN 29 ELSE 28)
    ELSE IF m \in {4, 6, 9, 11} THEN 30 ELSE 31

\* datetime.strptime(date_str, "%Y-%m-%d").date(): %Y is exactly four
\* digits, %m and %d are one or two digits (a leading zero is optional),
\* and the day must exist in the month.
Strptime(s) ==
    LET ys == Before(s, "-")
        rest == After(s, "-")
        ms == Before(rest, "-")
        dstr == After(rest, "-")
        wellFormed ==
            /\ Count(s, "-") = 2
            /\ Len(ys) = 4 /\ AllDigits(ys) /\ ToInt(ys) >= 1
            /\ Len(ms) \in {1, 2} /\ AllDigits(ms) /\ ToInt(ms) \in 1..12
            /\ Len(dstr) \in {1, 2} /\ AllDigits(dstr) /\ ToInt(dstr) \in 1..31
    IN  IF wellFormed /\ ToInt(dstr) <= DaysInMonth(ToInt(ys), ToInt(ms))
        THEN Ok(<<ToInt(ys), ToInt(ms), ToInt(dstr)>>)
        ELSE Raise("ValueError", <<"does not match format">>)

\* validate_date
validate_date(date_str) ==
    LET r == Strptime(date_str) IN
    IF r.ok THEN r
    ELSE Raise("ValueError",
               <<"Invalid date format: ", date_str, ". Use YYYY-MM-DD">>)

\* datetime.date.__gt__
DateGt(a, b) ==
    \/ a[1] > b[1]
    \/ (a[1] = b[1] /\ a[2] > b[2])
    \/ (a[1] = b[1] /\ a[2] = b[2] /\ a[3] > b[3])
DateGe(a, b) == a = b \/ DateGt(a, b)

\* truth value of an optional string: None and "" are false
Truthy(x) == x.tag = "Some" /\ x.v # <<>>

\* validate_date_range
validate_date_range_strict(start_str, end_str) ==
    LET s == IF Truthy(start_str) THEN validate_date(start_str.v) ELSE Ok(None)
        e == IF Truthy(end_str) THEN validate_date(end_str.v) ELSE Ok(None)
    IN  IF ~s.ok THEN s
        ELSE IF ~e.ok THEN e
        ELSE IF Truthy(start_str) /\ Truthy(end_str) /\ DateGe(s.v, e.v)
        THEN Raise("ValueError",
                   <<"start_date must be before or equal to end_date">>)
        ELSE Ok(None)
validate_date_range(start_str, end_str) ==
    LET s == IF Truthy(start_str) THEN validate_date(start_str.v) ELSE Ok(None)
        e == IF Truthy(end_str) THEN validate_date(end_str.v) ELSE Ok(None)
    IN  IF ~s.ok THEN s
        ELSE IF ~e.ok THEN e
        ELSE IF Truthy(start_str) /\ Truthy(end_str) /\ DateGt(s.v, e.v)
        THEN Raise("ValueError",
                   <<"start_date must be before or equal to end_date">>)
        ELSE Ok(None)

\* date strings a caller may pass
DateStrings ==
    { <<"2", "0", "2", "4", "-", "0", "1", "-", "0", "5">>,
      <<"2", "0", "2", "4", "-", "1", "-", "5">>,
      <<"2", "0", "2", "4", "-", "0", "2", "-", "2", "9">>,
      <<"2", "0", "2", "3", "-", "1", "2", "-", "3", "1">>,
      <<"2", "0", "2", "4", "-", "1", "0", "-", "0", "1">>,
      <<"2", "0", "2", "3", "-", "0", "2", "-", "2", "9">>,
      <<"2", "4", "-", "0", "1", "-", "0", "5">> }

OptionalDates == {None, Some(<<>>)} \cup {Some(d) : d \in DateStrings}



Init ==
    /\ rdef \in Defs
    /\ pc = "idle"
    /\ attempts = 0
    /\ history = <<>>
    /\ sleeps = <<>>
    /\ log = <<>>
    /\ result = NoResult
    /\ pfn = "none"
    /\ pin = None
    /\ pout = None
    /\ ToolsIdle /\ LoopIdle /\ RegistryIdle

\* A caller invokes one of the helpers.
Call(d) ==
    /\ pc \in {"idle", "done"}
    /\ rdef' = d
    /\ pc' = "calling"
    /\ attempts' = 0
    /\ history' = <<>>
    /\ sleeps' = <<>>
    /\ log' = <<>>
    /\ result' = NoResult
    /\ UNCHANGED pureVars
    /\ UNCHANGED extVars

\* One invocation of the wrapped operation and what the wrapper does with
\* its outcome.  An undecorated helper is the bare operation.
Attempt(o) ==
    /\ pc = "calling"
    /\ attempts' = attempts + 1
    /\ history' = Append(history, o)
    /\ IF o.ok
       THEN /\ result' = Returned(o.v)
            /\ pc' = "done"
            /\ UNCHANGED <<sleeps, log>>
       ELSE IF rdef \in Undecorated \/ ~RetryIf(o.e)
       THEN /\ result' = Raised(o.e)
            /\ pc' = "done"
            /\ UNCHANGED <<sleeps, log>>
       ELSE /\ log' = Append(log, attempts + 1)
            /\ IF StopAfterAttempt(attempts + 1)
               THEN /\ result' = RetryError(o.e)
                    /\ pc' = "done"
                    /\ UNCHANGED sleeps
               ELSE /\ sleeps' = Append(sleeps, WaitExponential(attempts + 1))
                    /\ pc' = "sleeping"
                    /\ UNCHANGED result
    /\ UNCHANGED <<rdef, pfn, pin, pout>>
    /\ UNCHANGED extVars

\* The backoff sleep ends and the next attempt is due.
Wake ==
    /\ pc = "sleeping"
    /\ pc' = "calling"
    /\ UNCHANGED <<rdef, attempts, history, sleeps, log, result, pfn, pin, pout>>
    /\ UNCHANGED extVars

Next ==
    \/ \E d \in Defs : Call(d)
    \/ \E o \in Outcomes : Attempt(o)
    \/ Wake

Spec == Init /\ [][Next]_vars

\* The sleep returns and a due attempt is made.
FairSpec == Spec /\ WF_vars(Wake) /\ WF_vars(\E o \in Outcomes : Attempt(o))

----------------------------------------------------------------------------
(* Tabular normaliser *)

MaxRows == 2
MaxCols == 2
MaxCells == 4

\* cells of a DataFrame: a missing value, a str, or a number
NaN == [k |-> "nan"]
Str(t) == [k |-> "str", s |-> t]
Num(n) == [k |-> "num", n |-> n]

DigitOf(n) == CHOOSE c \in Digits : DigitVal(c) = n
ColName(j) == <<"c", DigitOf(j)>>

\* the cells a column of each dtype may hold
CellsOf(dtype) ==
    CASE dtype = "int64" -> {Num(0), Num(5)}
      [] dtype = "float64" -> {NaN, Num(0), Num(5)}
      [] dtype = "object" -> {NaN, Str(<<>>), Str(<<"0">>), Str(<<"x">>), Num(0)}

Dtypes == {"int64", "float64", "object"}

ColumnBodies(r) ==
    UNION { { [dtype |-> dt, cells |-> cs] : cs \in [1..r -> CellsOf(dt)] } :
            dt \in Dtypes }

\* the tables of r rows and c columns
TablesOf(r, c) ==
    { [nrows |-> r,
       cols |-> [j \in 1..c |->
                    [name |-> ColName(j), dtype |-> b[j].dtype,
                     cells |-> b[j].cells]]] :
      b \in [1..c -> ColumnBodies(r)] }

Shapes ==
    {rc \in (0..MaxRows) \X (1..MaxCols) : rc[1] * rc[2] <= MaxCells}

Tables == UNION {TablesOf(rc[1], rc[2]) : rc \in Shapes}

\* df.notna(), df != '' and df != 0, per cell
NotNa(cell) == cell.k # "nan"
NeEmpty(cell) == ~(cell.k = "str" /\ cell.s = <<>>)
NeZero(cell) == ~(cell.k = "num" /\ cell.n = 0)

AnyCell(col, P(_)) == \E i \in 1..Len(col.cells) : P(col.cells[i])

\* the column mask of to_clean_csv
MaskNoDtype(col) ==
    AnyCell(col, NotNa) /\ AnyCell(col, NeEmpty) /\ AnyCell(col, NeZero)
Mask(col) ==
    /\ AnyCell(col, NotNa)
    /\ AnyCell(col, NeEmpty)
    /\ (AnyCell(col, NeZero) \/ col.dtype = "object")

\* the text of one cell after fillna('') in to_csv
CellText(col, cell) ==
    CASE cell.k = "nan" -> <<>>
      [] cell.k = "str" -> cell.s
      [] cell.k = "num" ->
            IF col.dtype = "float64" THEN <<DigitOf(cell.n), ".", "0">>
            ELSE <<DigitOf(cell.n)>>

\* to_clean_csv: the lines of the text, each a sequence of fields; the first
\* line is the header, no index column
to_clean_csv(df) ==
    LET kept == SelectSeq(df.cols, Mask) IN
    <<[j \in 1..Len(kept) |-> kept[j].name]>> \o
    [i \in 1..df.nrows |-> [j \in 1..Len(kept) |-> CellText(kept[j], kept[j].cells[i])]]

\* Reading delimited text back into a table, with the usual inference: an
\* empty field is missing; a column of integer fields is int64, of numeric
\* and empty fields float64, anything else object.
IsIntText(t) == t # <<>> /\ AllDigits(t)
IsFloatText(t) ==
    /\ Len(t) >= 3
    /\ SubSeq(t, Len(t) - 1, Len(t)) = <<".", "0">>
    /\ IsIntText(SubSeq(t, 1, Len(t) - 2))
NumberOf(t) == IF IsIntText(t) THEN ToInt(t) ELSE ToInt(SubSeq(t, 1, Len(t) - 2))

parse(lines) ==
    LET n == Len(lines) - 1
        field(i, j) == lines[i + 1][j]
        dtypeOf(j) ==
            IF n = 0 THEN "object"
            ELSE IF \A i \in 1..n : IsIntText(field(i, j)) THEN "int64"
            ELSE IF \A i \in 1..n : field(i, j) = <<>> \/ IsIntText(field(i, j))
                                       \/ IsFloatText(field(i, j))
            THEN "float64"
            ELSE "object"
        cellOf(i, j) ==
            IF field(i, j) = <<>> THEN NaN
            ELSE IF dtypeOf(j) = "object" THEN Str(field(i, j))
            ELSE Num(NumberOf(field(i, j)))
    IN  [nrows |-> n,
         cols |-> [j \in 1..Len(lines[1]) |->
                      [name |-> lines[1][j], dtype |-> dtypeOf(j),
                       cells |-> [i \in 1..n |-> cellOf(i, j)]]]]

\* strftime("%Y-%m-%d")
ZeroPad(n, w) == [i \in 1..w |-> DigitOf((n \div Pow(10, w - i)) % 10)]
Strftime(d) ==
    ZeroPad(d[1], 4) \o <<"-">> \o ZeroPad(d[2], 2) \o <<"-">> \o ZeroPad(d[3], 2)

\* text of the form DDDD-DD-DD
IsIsoDate(t) ==
    /\ Len(t) = 10
    /\ t[5] = "-" /\ t[8] = "-"
    /\ \A k \in (1..10) \ {5, 8} : t[k] \in Digits

\* --- google trends time frames ---------------------------------------------------

\* TREND_TIMEFRAMES, in insertion order
TREND_TIMEFRAMES ==
    << <<1, "now 1-d">>, <<7, "now 7-d">>, <<30, "today 1-m">>,
       <<90, "today 3-m">>, <<365, "today 12-m">> >>

\* for max_days, timeframe in table: if days <= max_days: return timeframe
RECURSIVE FirstCovering(_, _, _)
FirstCovering(days, table, default) ==
    IF table = <<>> THEN default
    ELSE IF days <= table[1][1] THEN table[1][2]
    ELSE FirstCovering(days, Tail(table), default)

\* agentic_investor/tools/google_trends
get_trends_timeframe(days) == FirstCovering(days, TREND_TIMEFRAMES, "today 5-y")

\* investor_agent/server.py
server_get_trends_timeframe(days) ==
    FirstCovering(days, TREND_TIMEFRAMES, "today 5-y")

\* investor_agent/tools/google_trends
investor_agent_get_trends_timeframe(days) ==
    IF days <= 1 THEN "now 1-d"
    ELSE IF days <= 7 THEN "now 7-d"
    ELSE IF days <= 30 THEN "today 1-m"
    ELSE IF days <= 90 THEN "today 3-m"
    ELSE FirstCovering(days,
                       << <<365 * 5, "today 5-y">>, <<365, "today 12-m">> >>,
                       "today 5-y")

\* period_days a caller may pass: each threshold and its neighbours
TrendDays == {-1, 0, 1, 2, 7, 8, 30, 31, 90, 91, 365, 366, 1825, 1826}

\* --- format_date_string ----------------------------------------------------------

\* date_str.replace("Z", "")
RemoveZ(s) == SelectSeq(s, LAMBDA c : c # "Z")

\* HH:MM or HH:MM:SS
IsClock(t) ==
    /\ Len(t) \in {5, 8}
    /\ t[3] = ":"
    /\ AllDigits(SubSeq(t, 1, 2)) /\ ToInt(SubSeq(t, 1, 2)) <= 23
    /\ AllDigits(SubSeq(t, 4, 5)) /\ ToInt(SubSeq(t, 4, 5)) <= 59
    /\ Len(t) = 8 =>
          /\ t[6] = ":"
          /\ AllDigits(SubSeq(t, 7, 8)) /\ ToInt(SubSeq(t, 7, 8)) <= 59

\* datetime.fromisoformat: a zero-padded calendar date, alone or followed by
\* a separator and a time of day
fromisoformat(s) ==
    IF /\ Len(s) >= 10
       /\ IsIsoDate(SubSeq(s, 1, 10))
       /\ Strptime(SubSeq(s, 1, 10)).ok
       /\ \/ Len(s) = 10
          \/ (s[11] \in {"T", " "} /\ IsClock(SubSeq(s, 12, Len(s))))
    THEN Strptime(SubSeq(s, 1, 10))
    ELSE Raise("ValueError", <<"Invalid isoformat string: ", s>>)

\* format_date_string; None.replace raises like a failed parse
format_date_string(date_str) ==
    LET parsed == IF date_str = None
                  THEN Raise("AttributeError", <<"replace">>)
                  ELSE fromisoformat(RemoveZ(date_str.v))
    IN  IF parsed.ok THEN Some(Strftime(parsed.v))
        ELSE IF Truthy(date_str)
        THEN Some(SubSeq(date_str.v, 1, Min(10, Len(date_str.v))))
        ELSE None

\* date strings a news item may carry
NewsDates ==
    {None, Some(<<>>)} \cup
    {Some(t) : t \in {<<"Z">>,
                      <<"y", "e", "s", "t", "e", "r", "d", "a", "y">>,
                      <<"2", "0", "2", "4", "-", "0", "1", "-", "0", "5">>,
                      <<"2", "0", "2", "4", "-", "1", "-", "5">>,
                      <<"2", "0", "2", "4", "-", "0", "2", "-", "3", "0">>,
                      <<"2", "0", "2", "4", "-", "0", "1", "-", "0", "5", "T", "1", "0", ":", "0", "0", ":", "0", "0", "Z">>,
                      <<"2", "0", "2", "4", "-", "0", "1", "-", "0", "5", "T", "1", "0", ":", "0", "0", ":", "0", "0">>,
                      <<"2", "0", "2", "4", "-", "0", "1", "-", "0", "5", " ", "1", "0", ":", "0", "0">>,
                      <<"2", "0", "2", "4", "-", "1", "3", "-", "4", "5", "T", "0", "0", ":", "0", "0", ":", "0", "0", "Z">>}}

----------------------------------------------------------------------------
(* Evaluation of the pure functions on bounded inputs *)

Pending == [tag |-> "Pending"]

PureInputs(fn) ==
    CASE fn = "validate_ticker" -> {[ticker |-> t] : t \in TickerStrings}
      [] fn = "validate_date_range" ->
            {[start |-> a, end |-> b] : a \in OptionalDates, b \in OptionalDates}
      [] fn = "to_clean_csv" -> {[df |-> t] : t \in Tables}
      [] fn = "get_trends_timeframe" -> {[days |-> d] : d \in TrendDays}
      [] fn = "format_date_string" -> {[date_str |-> d] : d \in NewsDates}

PureFns ==
    {"validate_ticker", "validate_date_range", "to_clean_csv",
     "get_trends_timeframe", "format_date_string"}

InitPure ==
    /\ pfn \in PureFns
    /\ pin \in PureInputs(pfn)
    /\ pout = Pending
    /\ rdef = "none"
    /\ pc = "idle"
    /\ attempts = 0
    /\ history = <<>>
    /\ sleeps = <<>>
    /\ log = <<>>
    /\ result = NoResult
    /\ ToolsIdle /\ LoopIdle /\ RegistryIdle

\* validate_ticker on the ticker, on its lowercase form and on its own result
ApplyValidateTicker ==
    /\ pfn = "validate_ticker" /\ pout = Pending
    /\ pout' = LET r == validate_ticker(pin.ticker) IN
               [direct |-> r,
                lowered |-> validate_ticker(StrLower(pin.ticker)),
                twice |-> IF r.ok THEN validate_ticker(r.v) ELSE r]
    /\ UNCHANGED <<pfn, pin>>
    /\ UNCHANGED retryVars
    /\ UNCHANGED extVars

ApplyValidateDateRange ==
    /\ pfn = "validate_date_range" /\ pout = Pending
    /\ pout' = validate_date_range(pin.start, pin.end)
    /\ UNCHANGED <<pfn, pin>>
    /\ UNCHANGED retryVars
    /\ UNCHANGED extVars

\* to_clean_csv on the table, and on its own text read back
ApplyToCleanCsv ==
    /\ pfn = "to_clean_csv" /\ pout = Pending
    /\ pout' = LET text == to_clean_csv(pin.df) IN
               [csv |-> text, again |-> to_clean_csv(parse(text))]
    /\ UNCHANGED <<pfn, pin>>
    /\ UNCHANGED retryVars
    /\ UNCHANGED extVars

\* the three definitions of get_trends_timeframe on the same days
ApplyGetTrendsTimeframe ==
    /\ pfn = "get_trends_timeframe" /\ pout = Pending
    /\ pout' = [agentic_investor |-> get_trends_timeframe(pin.days),
                investor_agent |-> investor_agent_get_trends_timeframe(pin.days),
                server |-> server_get_trends_timeframe(pin.days)]
    /\ UNCHANGED <<pfn, pin>>
    /\ UNCHANGED retryVars
    /\ UNCHANGED extVars

ApplyFormatDateString ==
    /\ pfn = "format_date_string" /\ pout = Pending
    /\ pout' = [returned |-> format_date_string(pin.date_str)]
    /\ UNCHANGED <<pfn, pin>>
    /\ UNCHANGED retryVars
    /\ UNCHANGED extVars

NextPure ==
    \/ ApplyValidateTicker
    \/ ApplyValidateDateRange
    \/ ApplyToCleanCsv
    \/ ApplyGetTrendsTimeframe
    \/ ApplyFormatDateString

SpecPure == InitPure /\ [][NextPure]_vars

Applied(fn) == pfn = fn /\ pout # Pending

----------------------------------------------------------------------------
(* Properties of the resilient fetch layer *)

IsFailure(o) == ~o.ok

\* the failures the specification calls transient: the provider's rate-limit
\* error, a status of 500 or more, or one of the rate-limit / timeout /
\* connection / network phrases or the codes 429, 502, 503, 504 in the message
TransientPhrases == RetryTerms \ {<<"5">>}
SpecTransient(e) ==
    \/ e.type = "YFRateLimitError"
    \/ (e.hasStatus /\ e.status >= 500)
    \/ \E term \in TransientPhrases : Contains(StrLower(e.msg), term)

\* C1: the wrapped operation is invoked at most 3 times per call, whatever
\* the attempt outcomes are; a 4th attempt never happens.
C1_AtMostThreeAttempts == attempts <= 3 /\ Len(history) = attempts

C1_Witness ==
    /\ pc = "done" /\ rdef \in Decorated /\ attempts = 3
    /\ \A i \in 1..3 : IsFailure(history[i])

\* C2: an attempt is followed by another one only if it failed transiently
\* (in the specification's sense); every other failure is raised to the
\* caller after exactly one attempt.
C2_RetryOnlyTransient ==
    /\ \A i \in 1..(Len(history) - 1) :
          IsFailure(history[i]) /\ SpecTransient(history[i].e)
    /\ (attempts >= 1 /\ IsFailure(Last(history))
            /\ ~SpecTransient(Last(history).e)) =>
          (pc = "done" /\ attempts = 1 /\ result = Raised(Last(history).e))

\* C3: when all 3 attempts fail, the caller receives the last attempt's
\* failure, of the same type and message, not a wrapper error.
C3_LastFailureUnchanged ==
    (pc = "done" /\ attempts = 3 /\ IsFailure(Last(history))) =>
        result = Raised(Last(history).e)

\* C4: in a retried helper, a transient failure with fewer than 3 attempts
\* made is followed by another attempt; a success is returned at once and
\* ends the call; two transient failures and then a success give the success
\* value after exactly 3 attempts.
C4_State ==
    (rdef \in Decorated /\ attempts >= 1) =>
        /\ \A i \in 1..(Len(history) - 1) : IsFailure(history[i])
        /\ Last(history).ok =>
              (pc = "done" /\ result = Returned(Last(history).v))
        /\ (IsFailure(Last(history)) /\ SpecTransient(Last(history).e)
                /\ attempts < 3) =>
              pc \in {"sleeping", "calling"}
        /\ (Len(history) = 3 /\ Last(history).ok) =>
              (attempts = 3 /\ result = Returned("payload"))

C4_RetryThenReturn ==
    /\ []C4_State
    /\ \A n \in 1..2 :
          (rdef \in Decorated /\ pc = "sleeping" /\ attempts = n)
              ~> (attempts = n + 1)

C4_Witness ==
    /\ pc = "done" /\ rdef \in Decorated /\ attempts = 3
    /\ IsFailure(history[1]) /\ SpecTransient(history[1].e)
    /\ IsFailure(history[2]) /\ SpecTransient(history[2].e)
    /\ history[3].ok /\ result = Returned("payload")

\* C5: the wait after failed attempt n is min(30, max(2, 2 * 2^(n-1))): 2
\* after the first failure, 4 after the second, never below 2 or above 30
\* and never decreasing.
MaxBackoffN == 6
SpecWait(n) == Min(30, Max(2, 2 * Pow(2, n - 1)))

C5_BackoffWait ==
    /\ \A i \in 1..Len(sleeps) : sleeps[i] = SpecWait(i)
    /\ Len(sleeps) >= 1 => sleeps[1] = 2
    /\ Len(sleeps) >= 2 => sleeps[2] = 4
    /\ pc = "sleeping" => Len(sleeps) = attempts
    /\ \A n \in 1..MaxBackoffN :
          /\ WaitExponential(n) = SpecWait(n)
          /\ WaitExponential(n) >= 2 /\ WaitExponential(n) <= 30
          /\ n > 1 => WaitExponential(n - 1) <= WaitExponential(n)

C5_Witness == pc = "sleeping" /\ attempts = 2 /\ sleeps = <<2, 4>>

\* The shared policy run over a sequence of attempt outcomes: the index of
\* the attempt it ends at (Len(h) + 1 if it would go on past h).
RECURSIVE PolicyEnd(_, _)
PolicyEnd(h, i) ==
    IF i > Len(h) THEN i
    ELSE IF h[i].ok \/ ~RetryIf(h[i].e) \/ i >= 3 THEN i
    ELSE PolicyEnd(h, i + 1)

PolicyResult(h) ==
    LET n == PolicyEnd(h, 1) IN
    IF n > Len(h) THEN NoResult
    ELSE IF h[n].ok THEN Returned(h[n].v)
    ELSE IF ~RetryIf(h[n].e) THEN Raised(h[n].e)
    ELSE RetryError(h[n].e)

\* C6: every definition of fetch_json, fetch_text and yf_call, given the
\* same attempt outcomes, makes the same number of attempts and ends in the
\* same outcome as the shared retry policy.
C6_SamePolicyEverywhere ==
    pc = "done" =>
        (attempts = PolicyEnd(history, 1) /\ result = PolicyResult(history))

----------------------------------------------------------------------------
(* Properties of the validators *)

\* C7: validate_ticker is case-insensitive and idempotent for every string:
\* the ticker and its lowercase form both fail or give the same value,
\* validating a result gives it back, it fails exactly when the ticker is
\* empty after trimming, and otherwise returns the ticker uppercased and
\* trimmed.
C7_Body ==
    /\ pout.lowered = pout.direct
    /\ pout.twice = pout.direct
    /\ ~pout.direct.ok <=> StrStrip(pin.ticker) = <<>>
    /\ pout.direct.ok => pout.direct.v = StrUpper(StrStrip(pin.ticker))

C7_TickerCaseInsensitive == Applied("validate_ticker") => C7_Body

\* the characters whose lowercase form uppercases back to their own uppercase
CaseRoundTrips(t) ==
    \A i \in 1..Len(t) : UpperChar(LowerChar(t[i])) = UpperChar(t[i])

\* C7 (amended): the same, for every string whose characters c satisfy
\* c.lower().upper() == c.upper(), which every ASCII string does.
C7_TickerCaseInsensitiveAscii ==
    (Applied("validate_ticker") /\ CaseRoundTrips(pin.ticker)) => C7_Body

C7_Witness ==
    /\ Applied("validate_ticker")
    /\ pin.ticker = <<" ", "a", "k">>
    /\ pout.direct = Ok(<<"A", "K">>)
    /\ pout.lowered = pout.direct

DateOrdinal(d) == d[1] * 372 + d[2] * 31 + d[3]

\* C8: validate_date_range fails for every pair of dates with start > end,
\* and succeeds for every pair with start <= end and whenever a bound is
\* absent (the other being absent or a date).
C8_DateRange ==
    Applied("validate_date_range") =>
        LET present(x) == x.tag = "Some" /\ x.v # <<>>
            isDate(x) == present(x) /\ Strptime(x.v).ok
            ord(x) == DateOrdinal(Strptime(x.v).v)
        IN  /\ (isDate(pin.start) /\ isDate(pin.end)) =>
                  (pout.ok <=> ord(pin.start) <= ord(pin.end))
            /\ (~present(pin.start) /\ (isDate(pin.end) \/ ~present(pin.end))) =>
                  pout.ok
            /\ (~present(pin.end) /\ (isDate(pin.start) \/ ~present(pin.start))) =>
                  pout.ok

C8_Witness ==
    /\ Applied("validate_date_range")
    /\ pin.start = Some(<<"2", "0", "2", "4", "-", "0", "2", "-", "2", "9">>)
    /\ pin.end = Some(<<"2", "0", "2", "4", "-", "1", "-", "5">>)
    /\ ~pout.ok

----------------------------------------------------------------------------
(* Properties of the tabular normaliser *)

\* C9: to_clean_csv is idempotent: reading its text back into a table and
\* normalising again yields the same text.
C9_CleanCsvIdempotent ==
    Applied("to_clean_csv") => pout.again = pout.csv

InHeader(col) == \E j \in 1..Len(pout.csv[1]) : pout.csv[1][j] = col.name
HeaderIndex(col) == CHOOSE j \in 1..Len(pout.csv[1]) : pout.csv[1][j] = col.name

AllCells(col, P(_)) == \A i \in 1..Len(col.cells) : P(col.cells[i])
IsMissing(cell) == cell.k = "nan"
IsEmptyStr(cell) == cell.k = "str" /\ cell.s = <<>>
IsNumZero(cell) == cell.k = "num" /\ cell.n = 0
IsTextZero(cell) == cell.k = "str" /\ cell.s = <<"0">>
IsBlank(cell) == IsMissing(cell) \/ IsEmptyStr(cell) \/ IsNumZero(cell)

\* a retained column keeps one field per row, in row order
RowsKept(col) ==
    /\ Len(pout.csv) = pin.df.nrows + 1
    /\ \A i \in 1..pin.df.nrows :
          pout.csv[i + 1][HeaderIndex(col)] = CellText(col, col.cells[i])

\* C10: a column is absent from the output if and only if every one of its
\* cells is missing, an empty string or a numeric zero; a column of textual
\* "0" is retained, and a column with any other value is retained with its
\* rows unchanged in number and order.
C10_ColumnDropped ==
    Applied("to_clean_csv") =>
        \A j \in 1..Len(pin.df.cols) :
            LET col == pin.df.cols[j] IN
            /\ ~InHeader(col) <=> AllCells(col, IsBlank)
            /\ (pin.df.nrows > 0 /\ AllCells(col, IsTextZero)) => InHeader(col)
            /\ InHeader(col) => RowsKept(col)

\* C10 (amended): a column is absent if and only if all its cells are
\* missing (or the table has no rows), or all are empty strings, or it is a
\* numeric column whose cells are all zero; a column that mixes missing,
\* empty and zero cells, or an object column of zeros, is retained; every
\* retained column keeps its rows unchanged in number and order.
C10_ColumnDroppedUniform ==
    Applied("to_clean_csv") =>
        \A j \in 1..Len(pin.df.cols) :
            LET col == pin.df.cols[j] IN
            /\ ~InHeader(col) <=>
                  \/ AllCells(col, IsMissing)
                  \/ AllCells(col, IsEmptyStr)
                  \/ (col.dtype # "object" /\ AllCells(col, IsNumZero))
            /\ (pin.df.nrows > 0 /\ AllCells(col, IsTextZero)) => InHeader(col)
            /\ InHeader(col) => RowsKept(col)

C10_Witness ==
    /\ Applied("to_clean_csv")
    /\ pin.df.nrows = 2 /\ Len(pin.df.cols) = 2
    /\ pin.df.cols[1].dtype = "int64" /\ AllCells(pin.df.cols[1], IsNumZero)
    /\ AllCells(pin.df.cols[2], IsTextZero)
    /\ pout.csv = << <<ColName(2)>>, << <<"0">> >>, << <<"0">> >> >>

\* ---------------------------------------------------------------------------
\* Invocations on the event loop
\* ---------------------------------------------------------------------------
\* Every execute is a coroutine run by one event-loop thread.  A coroutine
\* gives the thread back only at an await; a plain call keeps it.

MaxInv == 2

\* price_history.execute calls yf_call as a plain function: the request and
\* the sleep between attempts run on the event-loop thread
SyncFetchTools == {"get_price_history"}
\* crypto_fear_greed.execute awaits fetch_json: the request and the sleep
\* between attempts are awaited
AwaitFetchTools == {"get_crypto_fear_greed_index"}
LoopTools == SyncFetchTools \cup AwaitFetchTools

InFlight(i) == i \in 1..Len(inv) /\ inv[i].pc # "done"
InsideFetch(i) == i \in 1..Len(inv) /\ inv[i].pc \in {"fetching", "backoff"}

\* who has the thread after invocation i reaches a fetch or a sleep
HolderAtFetch(i) == IF inv[i].tool \in SyncFetchTools THEN i ELSE Free

\* invocation i may run: the thread is free, or i itself holds it
MayRun(i) == loop = Free \/ loop = i

\* what no step on the event loop touches
offLoopVars ==
    <<rdef, pc, attempts, history, sleeps, log, result, pureVars, toolVars, regVars>>

InitLoop ==
    /\ inv = <<>>
    /\ loop = Free
    /\ rdef = "none"
    /\ pc = "idle"
    /\ attempts = 0
    /\ history = <<>>
    /\ sleeps = <<>>
    /\ log = <<>>
    /\ result = NoResult
    /\ pfn = "none"
    /\ pin = None
    /\ pout = None
    /\ ToolsIdle /\ RegistryIdle

\* the dispatcher accepts a request and creates the coroutine
Submit(t) ==
    /\ Len(inv) < MaxInv
    /\ loop = Free
    /\ inv' = Append(inv, [tool |-> t, pc |-> "ready", attempts |-> 0])
    /\ UNCHANGED loop
    /\ UNCHANGED offLoopVars

\* execute runs from its first line up to the fetch
StartExecute(i) ==
    /\ i \in 1..Len(inv)
    /\ inv[i].pc = "ready"
    /\ MayRun(i)
    /\ inv' = [inv EXCEPT ![i].pc = "fetching"]
    /\ loop' = HolderAtFetch(i)
    /\ UNCHANGED offLoopVars

\* one attempt of the fetch completes with outcome o
FetchAttempt(i, o) ==
    /\ i \in 1..Len(inv)
    /\ inv[i].pc = "fetching"
    /\ MayRun(i)
    /\ LET n == inv[i].attempts + 1 IN
       IF o.ok \/ ~RetryIf(o.e) \/ StopAfterAttempt(n)
       THEN /\ inv' = [inv EXCEPT ![i].pc = "done", ![i].attempts = n]
            /\ loop' = Free
       ELSE /\ inv' = [inv EXCEPT ![i].pc = "backoff", ![i].attempts = n]
            /\ loop' = HolderAtFetch(i)
    /\ UNCHANGED offLoopVars

\* the wait between two attempts is over
BackoffOver(i) ==
    /\ i \in 1..Len(inv)
    /\ inv[i].pc = "backoff"
    /\ MayRun(i)
    /\ inv' = [inv EXCEPT ![i].pc = "fetching"]
    /\ loop' = HolderAtFetch(i)
    /\ UNCHANGED offLoopVars

StepOf(i) ==
    \/ StartExecute(i)
    \/ \E o \in Outcomes : FetchAttempt(i, o)
    \/ BackoffOver(i)

NextLoop ==
    \/ \E t \in LoopTools : Submit(t)
    \/ \E i \in 1..MaxInv : StartExecute(i)
    \/ \E i \in 1..MaxInv : \E o \in Outcomes : FetchAttempt(i, o)
    \/ \E i \in 1..MaxInv : BackoffOver(i)

SpecLoop == InitLoop /\ [][NextLoop]_vars

\* C11: whenever one invocation is inside its provider fetch (a request in
\* progress or the wait between two attempts), every other invocation that
\* is still in flight can take a step.
C11_FetchDoesNotBlock ==
    \A i, j \in 1..MaxInv :
        (i # j /\ InsideFetch(i) /\ InFlight(j)) => ENABLED StepOf(j)

\* ---------------------------------------------------------------------------
\* Tool execution
\* ---------------------------------------------------------------------------
\* One execute call: tool, tin and env are fixed when it begins; every
\* provider call appends its outcome to history.

\* tickers a caller may pass
ToolTickers == {<<>>, <<" ">>, <<"a">>, <<" ", "a", "k">>}

\* PriceHistoryInput.period
Periods ==
    {"1d", "5d", "1mo", "3mo", "6mo", "1y", "2y", "5y", "10y", "ytd", "max"}

\* what a provider call may raise: one transient and one permanent failure
TransientError == Exc("APIError", TRUE, 503, <<"d", "o", "w", "n">>)
PermanentError == Exc("ValueError", FALSE, 0, <<"n", "o", " ", "d", "a", "t", "a">>)
ProviderErrors == {TransientError, PermanentError}

\* pandas: isinstance(x, pd.DataFrame), DataFrame.empty, DataFrame.head
IsDataFrame(x) == "nrows" \in DOMAIN x
IsEmpty(df) == df.nrows = 0 \/ Len(df.cols) = 0
HeadRows(df, n) ==
    LET k == Min(n, df.nrows) IN
    [df EXCEPT !.nrows = k,
               !.cols = [j \in 1..Len(df.cols) |->
                           [df.cols[j] EXCEPT !.cells = SubSeq(df.cols[j].cells, 1, k)]]]

\* the exception that leaves a decorated call
ExcOf(res) ==
    IF res.type = "RetryError"
    THEN Raise("RetryError", <<"RetryError[", res.cause.type, "]">>)
    ELSE Raise(res.type, <<res.cause.msg>>)

\* --- price history ---------------------------------------------------------

\* trading days the provider may report
TradingDays == {<<2024, 1, 5>>, <<2023, 12, 31>>, <<2024, 10, 1>>}

DateName == <<"D", "a", "t", "e">>
CloseName == <<"C", "l", "o", "s", "e">>
VolumeName == <<"V", "o", "l", "u", "m", "e">>

\* Ticker.history: a table indexed by date with price and volume columns
HistoryTable(days, close, volume) ==
    [index |-> days, nrows |-> Len(days),
     cols |-> << [name |-> CloseName, dtype |-> "float64",
                  cells |-> [i \in 1..Len(days) |-> close]],
                 [name |-> VolumeName, dtype |-> "int64",
                  cells |-> [i \in 1..Len(days) |-> Num(volume)]] >>]
DaySeqs == UNION {[1..n -> TradingDays] : n \in 0..MaxRows}
HistoryTables ==
    {HistoryTable(ds, c, v) : ds \in DaySeqs, c \in {NaN, Num(5)}, v \in {0, 5}}

\* histories the provider may answer with: priced tables, and one that has no
\* Close column
NoCloseTable ==
    [index |-> <<<<2024, 1, 5>>>>, nrows |-> 1,
     cols |-> << [name |-> VolumeName, dtype |-> "int64", cells |-> <<Num(5)>>] >>]
MaxBars == 4
BarDays(n) == [k \in 1..n |-> <<2024, 1, 1 + k>>]
IndicatorPayloads ==
    {None, NoCloseTable} \cup {HistoryTable(BarDays(n), Num(5), 5) : n \in 0..MaxBars}

\* line 42
IntervalForDaily(period) == "1d"
IntervalFor(period) ==
    IF period \in {"2y", "5y", "10y", "max"} THEN "1mo" ELSE "1d"

\* lines 50-53: reset_index, then the Date column as text
WithDates(hist) ==
    [nrows |-> hist.nrows,
     cols |-> << [name |-> DateName, dtype |-> "object",
                  cells |-> [i \in 1..hist.nrows |-> Str(Strftime(hist.index[i]))]] >>
              \o hist.cols]

\* the same without the emptiness test of lines 46-47
price_history_unchecked(ticker, hist) ==
    IF hist = None THEN Ok([price_data |-> <<>>])
    ELSE Ok([price_data |-> to_clean_csv(WithDates(hist))])
\* lines 46-58
price_history_result(ticker, hist) ==
    IF hist = None \/ IsEmpty(hist)
    THEN Raise("ValueError", <<"No historical data found for ", ticker>>)
    ELSE Ok([price_data |-> to_clean_csv(WithDates(hist))])

\* --- insider trades, earnings history ---------------------------------------

\* a provider table of one numeric column
PlainTables == {t \in TablesOf(0, 1) \cup TablesOf(1, 1) \cup TablesOf(MaxRows, 1) :
                   t.cols[1].dtype = "int64"}
MaxEntries == {1, MaxRows}

\* the same without the emptiness test of lines 45-46
insider_trades_unchecked(ticker, max_trades, trades) ==
    IF trades = None THEN Ok([trades_data |-> <<>>])
    ELSE Ok([trades_data |-> to_clean_csv(HeadRows(trades, max_trades))])
insider_trades_result(ticker, max_trades, trades) ==
    IF trades = None \/ (IsDataFrame(trades) /\ IsEmpty(trades))
    THEN Raise("ValueError", <<"No insider trading data found for ", ticker>>)
    ELSE Ok([trades_data |-> to_clean_csv(HeadRows(trades, max_trades))])

earnings_history_result(ticker, max_entries, earnings_history) ==
    IF earnings_history = None
          \/ (IsDataFrame(earnings_history) /\ IsEmpty(earnings_history))
    THEN Raise("ValueError", <<"No earnings history data found for ", ticker>>)
    ELSE Ok([earnings_data |-> to_clean_csv(HeadRows(earnings_history, max_entries))])

\* --- tools that validate the ticker and make one decorated yf_call ----------

SingleFetchTools ==
    {"get_price_history", "get_insider_trades", "get_earnings_history"}

\* the tools whose execute makes one decorated yf_call
FetchingTools == SingleFetchTools \cup {"calculate_technical_indicator"}

SingleFetchInputs(t) ==
    IF t = "get_price_history"
    THEN {[ticker |-> k, period |-> p] : k \in ToolTickers, p \in Periods}
    ELSE {[ticker |-> k, limit |-> n] : k \in ToolTickers, n \in MaxEntries}

\* the arguments of yf_call
Query(t, ticker, i) ==
    CASE t = "get_price_history" ->
            [ticker |-> ticker, method |-> "history", period |-> i.period,
             interval |-> IntervalFor(i.period)]
      [] t = "get_insider_trades" ->
            [ticker |-> ticker, method |-> "get_insider_transactions"]
      [] t = "get_earnings_history" ->
            [ticker |-> ticker, method |-> "get_earnings_history"]

\* what the provider may answer
Payloads(t) ==
    CASE t = "get_price_history" -> {None} \cup HistoryTables
      [] t = "calculate_technical_indicator" -> IndicatorPayloads
      [] OTHER -> {None} \cup PlainTables
FetchOutcomes(t) ==
    {[ok |-> TRUE, v |-> p] : p \in Payloads(t)}
        \cup {Failure(e) : e \in ProviderErrors}

\* the rest of execute once yf_call has returned
AfterFetch(t, i, ticker, payload) ==
    CASE t = "get_price_history" -> price_history_result(ticker, payload)
      [] t = "get_insider_trades" -> insider_trades_result(ticker, i.limit, payload)
      [] t = "get_earnings_history" -> earnings_history_result(ticker, i.limit, payload)

InitTools ==
    /\ rdef = "none"
    /\ pc = "idle"
    /\ attempts = 0
    /\ history = <<>>
    /\ sleeps = <<>>
    /\ log = <<>>
    /\ result = NoResult
    /\ pfn = "none"
    /\ pin = None
    /\ pout = None
    /\ ToolsIdle /\ LoopIdle /\ RegistryIdle

\* execute up to the provider call
BeginFetch(t, i) ==
    /\ epc = "idle"
    /\ tool' = t
    /\ tin' = i
    /\ LET v == validate_ticker(i.ticker) IN
       IF v.ok
       THEN /\ req' = Some(Query(t, v.v, i))
            /\ epc' = "fetching"
            /\ rdef' = "agentic_investor.utils.yfinance_helpers.yf_call"
            /\ pc' = "calling"
            /\ UNCHANGED eout
       ELSE /\ epc' = "done"
            /\ eout' = v
            /\ UNCHANGED <<req, rdef, pc>>
    /\ UNCHANGED <<env, futures, attempts, history, sleeps, log, result>>
    /\ UNCHANGED <<pureVars, loopVars, regVars>>

\* one attempt of the decorated call
FetchStep(o) ==
    /\ epc = "fetching"
    /\ tool \in FetchingTools
    /\ o \in FetchOutcomes(tool)
    /\ Attempt(o)

\* execute after the provider call
FinishFetch ==
    /\ epc = "fetching"
    /\ tool \in SingleFetchTools
    /\ pc = "done"
    /\ epc' = "done"
    /\ eout' = IF result.ok
               THEN AfterFetch(tool, tin, req.v.ticker, result.v)
               ELSE ExcOf(result)
    /\ UNCHANGED <<tool, tin, env, req, futures>>
    /\ UNCHANGED <<retryVars, pureVars, loopVars, regVars>>

\* --- institutional holders ---------------------------------------------------

HoldersInputs == {[ticker |-> k, top_n |-> n] : k \in ToolTickers, n \in MaxEntries}

\* what one undecorated yf_call of a sub-fetch may produce
HoldersOutcomes ==
    {[ok |-> TRUE, v |-> p] : p \in {None} \cup PlainTables}
        \cup {Failure(PermanentError)}

\* lines 73-74: head(top_n) of a table, None for anything else
Limited(x, top_n) == IF IsDataFrame(x) THEN HeadRows(x, top_n) ELSE None

\* lines 76, 81, 84: the category holds rows
HasRows(x) == x # None /\ ~IsEmpty(x)

\* the same, demanding both categories
institutional_holders_both(ticker, top_n, inst, fund) ==
    LET inst_holders == Limited(inst, top_n)
        fund_holders == Limited(fund, top_n)
    IN  IF ~HasRows(inst_holders) \/ ~HasRows(fund_holders)
        THEN Raise("ValueError", <<"No institutional holder data found for ", ticker>>)
        ELSE Ok([data |-> [ticker |-> ticker, top_n |-> top_n,
                           institutional_holders |-> to_clean_csv(inst_holders),
                           mutual_fund_holders |-> to_clean_csv(fund_holders)]])

\* lines 73-88
institutional_holders_result(ticker, top_n, inst, fund) ==
    LET inst_holders == Limited(inst, top_n)
        fund_holders == Limited(fund, top_n)
    IN  IF ~HasRows(inst_holders) /\ ~HasRows(fund_holders)
        THEN Raise("ValueError", <<"No institutional holder data found for ", ticker>>)
        ELSE IF HasRows(inst_holders) /\ HasRows(fund_holders)
        THEN Ok([data |-> [ticker |-> ticker, top_n |-> top_n,
                           institutional_holders |-> to_clean_csv(inst_holders),
                           mutual_fund_holders |-> to_clean_csv(fund_holders)]])
        ELSE IF HasRows(inst_holders)
        THEN Ok([data |-> [ticker |-> ticker, top_n |-> top_n,
                           institutional_holders |-> to_clean_csv(inst_holders)]])
        ELSE Ok([data |-> [ticker |-> ticker, top_n |-> top_n,
                           mutual_fund_holders |-> to_clean_csv(fund_holders)]])

\* lines 62-67: validate the ticker, submit both sub-fetches to the pool
BeginHolders(i) ==
    /\ epc = "idle"
    /\ tool' = "get_institutional_holders"
    /\ tin' = i
    /\ LET v == validate_ticker(i.ticker) IN
       IF v.ok
       THEN /\ req' = Some([ticker |-> v.v])
            /\ epc' = "joining"
            /\ futures' = [inst |-> Pending, fund |-> Pending]
            /\ UNCHANGED eout
       ELSE /\ epc' = "done"
            /\ eout' = v
            /\ UNCHANGED <<req, futures>>
    /\ UNCHANGED <<env, retryVars, pureVars, loopVars, regVars>>

\* a worker thread completes one sub-fetch
SubFetch(which, o) ==
    /\ epc = "joining"
    /\ tool = "get_institutional_holders"
    /\ futures[which] = Pending
    /\ futures' = [futures EXCEPT ![which] = o]
    /\ history' = Append(history, o)
    /\ UNCHANGED <<tool, tin, env, req, epc, eout>>
    /\ UNCHANGED <<rdef, pc, attempts, sleeps, log, result, pureVars, loopVars, regVars>>

\* lines 69-88: both results are taken, institutional first
JoinHolders ==
    /\ epc = "joining"
    /\ tool = "get_institutional_holders"
    /\ futures.inst # Pending /\ futures.fund # Pending
    /\ epc' = "done"
    /\ eout' = IF ~futures.inst.ok THEN Raise(futures.inst.e.type, <<futures.inst.e.msg>>)
               ELSE IF ~futures.fund.ok THEN Raise(futures.fund.e.type, <<futures.fund.e.msg>>)
               ELSE institutional_holders_result(req.v.ticker, tin.top_n,
                                                 futures.inst.v, futures.fund.v)
    /\ UNCHANGED <<tool, tin, env, req, futures>>
    /\ UNCHANGED <<retryVars, pureVars, loopVars, regVars>>

\* --- options -----------------------------------------------------------------

\* str comparison: by code point, then by length
CharCode(c) == IF c = "-" THEN 45 ELSE 48 + DigitVal(c)
RECURSIVE StrLt(_, _)
StrLt(a, b) ==
    IF b = <<>> THEN FALSE
    ELSE IF a = <<>> THEN TRUE
    ELSE IF a[1] = b[1] THEN StrLt(Tail(a), Tail(b))
    ELSE CharCode(a[1]) < CharCode(b[1])
StrLe(a, b) == a = b \/ StrLt(a, b)

\* expirations the provider may list
Expiry1 == <<"2", "0", "2", "4", "-", "0", "1", "-", "0", "5">>
Expiry2 == <<"2", "0", "2", "4", "-", "1", "0", "-", "0", "1">>

\* one contract of a chain
Contract(kind, strike, oi, vol) ==
    [contractSymbol |-> <<kind, DigitOf(strike)>>, strike |-> strike,
     openInterest |-> oi, volume |-> vol]

\* Ticker.option_chain: calls and puts
ChainA ==
    [calls |-> <<Contract("C", 1, 5, 0)>>, puts |-> <<Contract("P", 3, 0, 5)>>]
ChainB ==
    [calls |-> <<Contract("C", 2, 5, 5), Contract("C", 1, 0, 0)>>, puts |-> <<>>]

\* what get_options_chain's yf_call ends with, after the retry policy
ChainResults ==
    {Ok(ChainA), Ok(ChainB), ExcOf(Raised(PermanentError))}

\* the provider as one execute sees it: the expirations it lists (or the
\* failure of listing them) and the chain of each
OptionsEnvs ==
    {[options |-> Failure(PermanentError), chains |-> <<>>],
     [options |-> Ok(<<>>), chains |-> <<>>]}
    \cup {[options |-> Ok(<<Expiry1>>), chains |-> <<c>>] : c \in ChainResults}
    \cup {[options |-> Ok(<<Expiry1, Expiry2>>), chains |-> <<c, d>>] :
             c \in ChainResults, d \in ChainResults}

\* OptionsInput: the declared fields, and the names of undeclared attributes
\* the object carries
OptionsInput(k, n, sd, ed, lo, hi, ty, ex) ==
    [ticker_symbol |-> k, num_options |-> n, start_date |-> sd, end_date |-> ed,
     strike_lower |-> lo, strike_upper |-> hi, option_type |-> ty, extras |-> ex]

OptionsTickers == {<<>>, <<"a">>}
OptionsDates ==
    {None, Some(Expiry1), Some(Expiry2),
     Some(<<"2", "0", "2", "4", "-", "1", "-", "5">>),
     Some(<<"2", "4", "-", "0", "1", "-", "0", "5">>)}
MaxStrike == 3
OptionalStrikes == {None} \cup {Some(s) : s \in 1..MaxStrike}
ExtraAttrs == {{}, {"expiration_date"}}

OptionsInputs ==
    {OptionsInput(k, 2, sd, ed, None, None, None, ex) :
        k \in OptionsTickers, sd \in OptionsDates, ed \in OptionsDates, ex \in ExtraAttrs}
    \cup {OptionsInput(k, n, None, None, lo, hi, None, ex) :
        k \in OptionsTickers, n \in {1, 2}, lo \in OptionalStrikes,
        hi \in OptionalStrikes, ex \in ExtraAttrs}
    \cup {OptionsInput(k, 2, None, None, None, None, ty, ex) :
        k \in OptionsTickers, ty \in {Some("C"), Some("P")}, ex \in ExtraAttrs}

\* line 49: the log line reads input_data.expiration_date
ReadExpirationDate(i) ==
    IF "expiration_date" \in i.extras THEN Ok(None)
    ELSE Raise("AttributeError",
               <<"'OptionsInput' object has no attribute 'expiration_date'">>)

\* line 116: except Exception as e: raise ValueError(...)
Wrapped(exc) ==
    Raise("ValueError", <<"Failed to retrieve options data: ">> \o exc.msg)

\* lines 65-72
ValidExpirations(expirations, i) ==
    SelectSeq(expirations,
              LAMBDA exp :
                  /\ (~Truthy(i.start_date) \/ StrLe(i.start_date.v, exp))
                  /\ (~Truthy(i.end_date) \/ StrLe(exp, i.end_date.v)))

\* get_options_chain, lines 94-101
ChainRows(chain, option_type) ==
    IF option_type = Some("C") THEN chain.calls
    ELSE IF option_type = Some("P") THEN chain.puts
    ELSE chain.calls \o chain.puts

\* line 82: chain.assign(expiryDate=expiry)
AssignExpiry(rows, expiry) ==
    [k \in 1..Len(rows) |->
        [contractSymbol |-> rows[k].contractSymbol, strike |-> rows[k].strike,
         openInterest |-> rows[k].openInterest, volume |-> rows[k].volume,
         expiryDate |-> expiry]]

\* line 100: pd.concat
RECURSIVE Concat(_)
Concat(chains) ==
    IF chains = <<>> THEN <<>> ELSE Head(chains) \o Concat(Tail(chains))

\* the lower bound alone
StrikeFilteredLower(rows, i) ==
    SelectSeq(rows, LAMBDA r : i.strike_lower = None \/ r.strike >= i.strike_lower.v)

\* lines 103-106
StrikeFiltered(rows, i) ==
    SelectSeq(rows,
              LAMBDA r :
                  /\ (i.strike_lower = None \/ r.strike >= i.strike_lower.v)
                  /\ (i.strike_upper = None \/ r.strike <= i.strike_upper.v))

\* line 108: sort_values(["openInterest", "volume"], ascending=[False, False]),
\* rows with equal keys keep their order
Outranks(a, b) ==
    \/ a.openInterest > b.openInterest
    \/ (a.openInterest = b.openInterest /\ a.volume > b.volume)
RECURSIVE InsertSorted(_, _)
InsertSorted(sorted, r) ==
    IF sorted = <<>> THEN <<r>>
    ELSE IF Outranks(r, Head(sorted)) THEN <<r>> \o sorted
    ELSE <<Head(sorted)>> \o InsertSorted(Tail(sorted), r)
RECURSIVE SortValues(_)
SortValues(rows) ==
    IF rows = <<>> THEN <<>>
    ELSE InsertSorted(SortValues(SubSeq(rows, 1, Len(rows) - 1)), Last(rows))

\* the rows as a table
ContractsTable(rows) ==
    [nrows |-> Len(rows),
     cols |-> << [name |-> <<"contractSymbol">>, dtype |-> "object",
                  cells |-> [k \in 1..Len(rows) |-> Str(rows[k].contractSymbol)]],
                 [name |-> <<"strike">>, dtype |-> "float64",
                  cells |-> [k \in 1..Len(rows) |-> Num(rows[k].strike)]],
                 [name |-> <<"openInterest">>, dtype |-> "int64",
                  cells |-> [k \in 1..Len(rows) |-> Num(rows[k].openInterest)]],
                 [name |-> <<"volume">>, dtype |-> "int64",
                  cells |-> [k \in 1..Len(rows) |-> Num(rows[k].volume)]],
                 [name |-> <<"expiryDate">>, dtype |-> "object",
                  cells |-> [k \in 1..Len(rows) |-> Str(rows[k].expiryDate)]] >>]

\* lines 100-109: the contracts returned
SelectedContracts(chains, i) ==
    LET sorted == SortValues(StrikeFiltered(Concat(chains), i)) IN
    SubSeq(sorted, 1, Min(i.num_options, Len(sorted)))

\* lines 49-77: execute up to the submission of the chain fetches; o is what
\* listing the expirations produces
BeginOptions(i, e) ==
    /\ epc = "idle"
    /\ tool' = "get_options"
    /\ tin' = i
    /\ env' = e
    /\ LET a == ReadExpirationDate(i)
           v == validate_ticker(i.ticker_symbol)
           d == validate_date_range(i.start_date, i.end_date)
           o == e.options
           valid == ValidExpirations(o.v, i)
           Fail(x, calls) ==
               /\ epc' = "done"
               /\ eout' = x
               /\ history' = calls
               /\ UNCHANGED <<req, futures>>
       IN  IF ~a.ok THEN Fail(a, history)
           ELSE IF ~v.ok THEN Fail(v, history)
           ELSE IF ~d.ok THEN Fail(Wrapped(d), history)
           ELSE IF ~o.ok
           THEN Fail(Wrapped(Raise(o.e.type, <<o.e.msg>>)), Append(history, o))
           ELSE IF o.v = <<>>
           THEN Fail(Wrapped(Raise("ValueError", <<"No options available for ", v.v>>)),
                     Append(history, o))
           ELSE IF valid = <<>>
           THEN Fail(Wrapped(Raise("ValueError",
                                   <<"No options found for ", v.v,
                                     " within specified date range">>)),
                     Append(history, o))
           ELSE /\ epc' = "joining"
                /\ req' = Some([ticker |-> v.v, expirations |-> valid])
                /\ futures' = [k \in 1..Len(valid) |-> Pending]
                /\ history' = Append(history, o)
                /\ UNCHANGED eout
    /\ UNCHANGED <<rdef, pc, attempts, sleeps, log, result, pureVars, loopVars, regVars>>

\* the position of an expiration in the provider's list
IndexOf(expirations, exp) ==
    CHOOSE k \in 1..Len(expirations) : expirations[k] = exp

\* a worker thread completes the chain fetch of the k-th valid expiration
ChainFetch(k) ==
    /\ epc = "joining"
    /\ tool = "get_options"
    /\ k \in DOMAIN futures
    /\ futures[k] = Pending
    /\ LET c == env.chains[IndexOf(env.options.v, req.v.expirations[k])] IN
       /\ futures' = [futures EXCEPT ![k] = c]
       /\ history' = Append(history, c)
    /\ UNCHANGED <<tool, tin, env, req, epc, eout>>
    /\ UNCHANGED <<rdef, pc, attempts, sleeps, log, result, pureVars, loopVars, regVars>>

\* the results in the order the fetches completed
ExecutorMapAsCompleted(submitted, completed) == completed

\* line 84: executor.map yields the results in the order of its arguments,
\* whatever order the fetches completed in
ExecutorMap(submitted, completed) == submitted

\* lines 80-116: the results are zipped with the expirations
JoinOptions ==
    /\ epc = "joining"
    /\ tool = "get_options"
    /\ \A k \in DOMAIN futures : futures[k] # Pending
    /\ epc' = "done"
    /\ LET results == ExecutorMap(futures, Tail(history))
           failed == {k \in DOMAIN results : ~results[k].ok}
           first == CHOOSE k \in failed : \A j \in failed : k <= j
           chains == [k \in DOMAIN results |->
                        AssignExpiry(ChainRows(results[k].v, tin.option_type),
                                     req.v.expirations[k])]
       IN  eout' = IF failed # {} THEN Wrapped(results[first])
                   ELSE Ok([options_data |->
                              to_clean_csv(ContractsTable(SelectedContracts(chains, tin)))])
    /\ UNCHANGED <<tool, tin, env, req, futures>>
    /\ UNCHANGED <<retryVars, pureVars, loopVars, regVars>>

\* --- technical indicators ------------------------------------------------------

Indicators == {"SMA", "EMA", "RSI", "MACD", "BBANDS"}

\* TechnicalIndicatorsInput; the periods are kept small
NumResults == {1, 2, MaxBars + 1}
IndicatorInputs ==
    {[ticker |-> k, indicator |-> ind, period |-> "1y", timeperiod |-> tp,
      slowperiod |-> 2, signalperiod |-> 1, num_results |-> n] :
        k \in ToolTickers, ind \in Indicators, tp \in {1, 2, 3}, n \in NumResults}

\* the process may or may not have TA-Lib installed
IndicatorEnvs == {[talib |-> b] : b \in BOOLEAN}

HasClose(df) == \E j \in 1..Len(df.cols) : df.cols[j].name = CloseName

\* lines 63-69
MinRequired(i) ==
    CASE i.indicator = "SMA" -> i.timeperiod
      [] i.indicator = "EMA" -> i.timeperiod * 2
      [] i.indicator = "RSI" -> i.timeperiod + 1
      [] i.indicator = "MACD" -> i.slowperiod + i.signalperiod
      [] i.indicator = "BBANDS" -> i.timeperiod

\* the series each indicator function returns, by name
SeriesNames(ind) ==
    CASE ind = "SMA" -> << <<"sma">> >>
      [] ind = "EMA" -> << <<"ema">> >>
      [] ind = "RSI" -> << <<"rsi">> >>
      [] ind = "MACD" -> << <<"macd">>, <<"signal">>, <<"histogram">> >>
      [] ind = "BBANDS" -> << <<"upper_band">>, <<"middle_band">>, <<"lower_band">> >>

\* the positions at the start of a series that hold no value
Lookback(i) ==
    CASE i.indicator = "SMA" -> i.timeperiod - 1
      [] i.indicator = "EMA" -> i.timeperiod - 1
      [] i.indicator = "RSI" -> i.timeperiod
      [] i.indicator = "MACD" -> i.slowperiod + i.signalperiod - 2
      [] i.indicator = "BBANDS" -> i.timeperiod - 1

\* TA-Lib refuses a time period below 2 for SMA, EMA, RSI and BBANDS
TalibRejects(i) == i.indicator # "MACD" /\ i.timeperiod < 2

\* a series over n prices: nan in the lookback, then the value computed at
\* each position, written by its position
SeriesOver(n, i) ==
    [k \in 1..n |-> IF k <= Lookback(i) THEN NaN ELSE Num(k)]

\* line 135: f"{val:.4f}", or N/A for nan
ValueText(val) ==
    IF val = NaN THEN Str(<<"N/A">>) ELSE Str(<<"value@", DigitOf(val.n)>>)

\* DataFrame.tail
TailRows(df, n) ==
    LET k == Min(n, df.nrows)
        from == df.nrows - k + 1
    IN  [index |-> SubSeq(df.index, from, df.nrows),
         nrows |-> k,
         cols |-> [j \in 1..Len(df.cols) |->
                     [df.cols[j] EXCEPT !.cells = SubSeq(df.cols[j].cells, from, df.nrows)]]]

\* the first num_results values
HeadValues(values, n) == SubSeq(values, 1, Min(n, Len(values)))

\* values[-num_results:]
TailValues(values, n) ==
    SubSeq(values, Len(values) - Min(n, Len(values)) + 1, Len(values))

\* lines 122-140
IndicatorTable(price_df, i, n) ==
    LET names == SeriesNames(i.indicator)
        slice_values == TailValues(SeriesOver(n, i), i.num_results)
    IN  [nrows |-> price_df.nrows,
         cols |-> << price_df.cols[1] >> \o
                  [j \in 1..Len(names) |->
                      [name |-> names[j], dtype |-> "object",
                       cells |-> [r \in 1..price_df.nrows |->
                                    IF r <= Len(slice_values)
                                    THEN ValueText(slice_values[r])
                                    ELSE Str(<<"N/A">>)]]]]

\* the exception leaves execute
ErrorReraised(i, msg) == Raise("Exception", msg)

\* lines 150-155
ErrorData(i, msg) ==
    Ok([data |-> [error |->
          <<"Error calculating ", i.indicator, " for ", i.ticker, ": ">> \o msg]])

\* lines 59-148
indicator_result(i, ticker, hist) ==
    IF hist = None \/ IsEmpty(hist) \/ ~HasClose(hist)
    THEN ErrorData(i, <<"No valid historical data found for ", ticker>>)
    ELSE IF hist.nrows < MinRequired(i)
    THEN ErrorData(i, <<"Insufficient data for ", i.indicator, " (", hist.nrows,
                        " points, need ", MinRequired(i), ")">>)
    ELSE IF TalibRejects(i)
    THEN ErrorData(i, <<"Bad Parameter (TA_BAD_PARAM)">>)
    ELSE LET price_df == WithDates(TailRows(hist, i.num_results)) IN
         Ok([data |-> [price_data |-> to_clean_csv(price_df),
                       indicator_data |->
                           to_clean_csv(IndicatorTable(price_df, i, hist.nrows))]])

\* lines 42-58: execute up to the provider call
BeginIndicator(i, e) ==
    /\ epc = "idle"
    /\ tool' = "calculate_technical_indicator"
    /\ tin' = i
    /\ env' = e
    /\ LET v == validate_ticker(i.ticker) IN
       IF ~e.talib
       THEN /\ epc' = "done"
            /\ eout' = Ok([data |-> [error |-> <<"TA-Lib is not available. Please install TA-Lib to use this tool. See: https://github.com/mrjbq7/ta-lib#installation">>]])
            /\ UNCHANGED <<req, rdef, pc>>
       ELSE IF ~v.ok
       THEN /\ epc' = "done"
            /\ eout' = ErrorData(i, v.msg)
            /\ UNCHANGED <<req, rdef, pc>>
       ELSE /\ req' = Some([ticker |-> v.v, method |-> "history",
                            period |-> i.period, interval |-> "1d"])
            /\ epc' = "fetching"
            /\ rdef' = "agentic_investor.utils.yfinance_helpers.yf_call"
            /\ pc' = "calling"
            /\ UNCHANGED eout
    /\ UNCHANGED <<futures, attempts, history, sleeps, log, result>>
    /\ UNCHANGED <<pureVars, loopVars, regVars>>

\* lines 59-155: execute after the provider call
FinishIndicator ==
    /\ epc = "fetching"
    /\ tool = "calculate_technical_indicator"
    /\ pc = "done"
    /\ epc' = "done"
    /\ eout' = IF result.ok
               THEN indicator_result(tin, req.v.ticker, result.v)
               ELSE ErrorData(tin, ExcOf(result).msg)
    /\ UNCHANGED <<tool, tin, env, req, futures>>
    /\ UNCHANGED <<retryVars, pureVars, loopVars, regVars>>

\* --- intraday data -------------------------------------------------------------

IntradayInputs == {[stock |-> k, window |-> n] : k \in {<<>>, <<"a">>}, n \in MaxEntries}

\* an environment variable: unset, set to the empty string, or set
EnvValues == {None, Some(<<>>), Some(<<"k">>)}

CloseLower == <<"c", "l", "o", "s", "e">>
OpenLower == <<"o", "p", "e", "n">>

\* the bars of client.get_stock_bars(request).df, stamped 15:00 UTC
BarsTable(days, colname) ==
    [index |-> days, nrows |-> Len(days),
     cols |-> << [name |-> colname, dtype |-> "float64",
                  cells |-> [k \in 1..Len(days) |-> Num(5)]] >>]
BarsOutcomes ==
    {Failure(PermanentError), Failure(TransientError),
     Ok(BarsTable(<<>>, CloseLower)),
     Ok(BarsTable(<< <<2024, 1, 5>> >>, OpenLower)),
     Ok(BarsTable(<< <<2023, 12, 31>>, <<2024, 1, 5>> >>, CloseLower))}

\* the process: whether alpaca-py can be imported, the two credentials, and
\* what the bars provider would answer
IntradayEnvs ==
    {[alpaca |-> a, api_key |-> k, api_secret |-> s, bars |-> b] :
        a \in BOOLEAN, k \in EnvValues, s \in EnvValues, b \in BarsOutcomes}

\* line 57 testing for None only
MissingCredentialsUnset(e) == e.api_key = None \/ e.api_secret = None
\* line 57: not api_key or not api_secret
MissingCredentials(e) == ~Truthy(e.api_key) \/ ~Truthy(e.api_secret)

AlpacaMissingMsg ==
    <<"Alpaca API is not available. Please install alpaca-py package to use this tool: pip install alpaca-py">>
CredentialsMsg ==
    <<"ALPACA_API_KEY and ALPACA_API_SECRET environment variables must be set">>

\* lines 93-96
IntradayError(i, msg) ==
    Ok([intraday_data |-> <<"Error fetching data for ", i.stock, ": ">> \o msg])

\* lines 77-88: the close column by New York time, as delimited text
IntradayCsv(i, df) ==
    << <<<<"timestamp">>, i.stock>> >> \o
    [k \in 1..df.nrows |->
        << Strftime(df.index[k]) \o <<" ", "10:00:00", " ", "EST">>,
           CellText(df.cols[1], df.cols[1].cells[k]) >>]

\* lines 39-96: the whole of execute; at most one provider call
ExecuteIntraday(i, e) ==
    /\ epc = "idle"
    /\ tool' = "fetch_intraday_data"
    /\ tin' = i
    /\ env' = e
    /\ epc' = "done"
    /\ IF ~e.alpaca
       THEN /\ eout' = Ok([intraday_data |-> AlpacaMissingMsg])
            /\ UNCHANGED history
       ELSE IF MissingCredentials(e)
       THEN /\ eout' = IntradayError(i, CredentialsMsg)
            /\ UNCHANGED history
       ELSE /\ history' = Append(history, e.bars)
            /\ eout' = IF ~e.bars.ok THEN IntradayError(i, <<e.bars.e.msg>>)
                       ELSE IF IsEmpty(e.bars.v) \/ e.bars.v.cols[1].name # CloseLower
                       THEN IntradayError(i, <<"'close' column missing or data empty for ",
                                               i.stock>>)
                       ELSE Ok([intraday_data |-> IntradayCsv(i, e.bars.v)])
    /\ UNCHANGED <<req, futures>>
    /\ UNCHANGED <<rdef, pc, attempts, sleeps, log, result, pureVars, loopVars, regVars>>

\* --- financial statements --------------------------------------------------------

MaxPeriods == 2

\* a statement as the provider holds it: one line item, p period columns
PeriodName(j) == <<"Q", DigitOf(j)>>
Statement(p) ==
    [index |-> << <<"Revenue">> >>, nrows |-> 1,
     cols |-> [j \in 1..p |->
                  [name |-> PeriodName(j), dtype |-> "float64", cells |-> <<Num(5)>>]]]
EmptyStatement == [index |-> <<>>, nrows |-> 0, cols |-> <<>>]

\* what get_single_statement ends with, after its retry policy
StatementResults ==
    {Ok(None), Ok(EmptyStatement), Ok(Statement(MaxPeriods)),
     ExcOf(Raised(PermanentError))}

StatementTypeLists ==
    {<<>>, <<"income">>, <<"income", "balance">>, <<"balance", "income">>,
     <<"cash", "cash">>, <<"income", "balance", "cash">>}

\* FinancialStatementsInput
StatementsInputs ==
    {[ticker |-> k, statement_types |-> ts, frequency |-> f, max_periods |-> n] :
        k \in {<<>>, <<"a">>}, ts \in StatementTypeLists,
        f \in {"quarterly", "annual"}, n \in {1, MaxPeriods}}

\* the provider as one execute sees it: the answer to each submitted fetch
StatementsEnvs(i) ==
    {[results |-> rs] : rs \in [1..Len(i.statement_types) -> StatementResults]}

\* line 89: the keys of the futures dict in the order they were first
\* inserted; a repeated key keeps its place and takes the later future
RECURSIVE DictKeys(_)
DictKeys(types) ==
    IF types = <<>> THEN <<>>
    ELSE LET before == DictKeys(SubSeq(types, 1, Len(types) - 1)) IN
         IF \E j \in 1..Len(before) : before[j] = Last(types)
         THEN before
         ELSE Append(before, Last(types))
FutureOf(types, t) ==
    CHOOSE k \in 1..Len(types) :
        types[k] = t /\ \A j \in (k + 1)..Len(types) : types[j] # t

\* lines 97-98: df.iloc[:, :max_periods]
LimitPeriods(df, max_periods) ==
    IF Len(df.cols) > max_periods
    THEN [df EXCEPT !.cols = SubSeq(df.cols, 1, max_periods)]
    ELSE df

\* line 100: reset_index puts the line items in a first column
ResetIndex(df) ==
    [nrows |-> df.nrows,
     cols |-> << [name |-> <<"index">>, dtype |-> "object",
                  cells |-> [r \in 1..df.nrows |-> Str(df.index[r])]] >> \o df.cols]

\* line 94
NoStatement(r) == r.v = None \/ IsEmpty(r.v)

\* the same loop, leaving out the statements that came back empty
statements_result_skipping(ticker, i, results) ==
    LET keys == DictKeys(i.statement_types)
        res(m) == results[FutureOf(i.statement_types, keys[m])]
        bad == {m \in 1..Len(keys) : ~res(m).ok}
        first == CHOOSE m \in bad : \A j \in bad : m <= j
        kept == {m \in 1..Len(keys) : ~NoStatement(res(m))}
    IN  IF bad # {} THEN res(first)
        ELSE Ok([statements |->
                   [t \in {keys[m] : m \in kept} |->
                       to_clean_csv(ResetIndex(LimitPeriods(
                           results[FutureOf(i.statement_types, t)].v,
                           i.max_periods)))]])

\* lines 91-104: the futures are read in key order; the first that raised
\* or came back empty ends the call
statements_result(ticker, i, results) ==
    LET keys == DictKeys(i.statement_types)
        res(m) == results[FutureOf(i.statement_types, keys[m])]
        bad == {m \in 1..Len(keys) : ~res(m).ok \/ NoStatement(res(m))}
        first == CHOOSE m \in bad : \A j \in bad : m <= j
    IN  IF bad # {}
        THEN IF ~res(first).ok THEN res(first)
             ELSE Raise("ValueError",
                        <<"No ", keys[first], " statement data found for ", ticker>>)
        ELSE Ok([statements |->
                   [t \in {keys[m] : m \in 1..Len(keys)} |->
                       to_clean_csv(ResetIndex(LimitPeriods(
                           results[FutureOf(i.statement_types, t)].v,
                           i.max_periods)))]])

\* lines 75-89: validate the ticker, submit one fetch per requested type
BeginStatements(i, e) ==
    /\ epc = "idle"
    /\ tool' = "get_financial_statements"
    /\ tin' = i
    /\ env' = e
    /\ LET v == validate_ticker(i.ticker) IN
       IF v.ok
       THEN /\ req' = Some([ticker |-> v.v, frequency |-> i.frequency])
            /\ epc' = "joining"
            /\ futures' = [k \in 1..Len(i.statement_types) |-> Pending]
            /\ UNCHANGED eout
       ELSE /\ epc' = "done"
            /\ eout' = v
            /\ UNCHANGED <<req, futures>>
    /\ UNCHANGED <<retryVars, pureVars, loopVars, regVars>>

\* a worker thread completes the k-th submitted fetch
StatementFetch(k) ==
    /\ epc = "joining"
    /\ tool = "get_financial_statements"
    /\ k \in DOMAIN futures
    /\ futures[k] = Pending
    /\ futures' = [futures EXCEPT ![k] = env.results[k]]
    /\ history' = Append(history, env.results[k])
    /\ UNCHANGED <<tool, tin, env, req, epc, eout>>
    /\ UNCHANGED <<rdef, pc, attempts, sleeps, log, result, pureVars, loopVars, regVars>>

\* lines 91-104
JoinStatements ==
    /\ epc = "joining"
    /\ tool = "get_financial_statements"
    /\ \A k \in DOMAIN futures : futures[k] # Pending
    /\ epc' = "done"
    /\ eout' = statements_result(req.v.ticker, tin, futures)
    /\ UNCHANGED <<tool, tin, env, req, futures>>
    /\ UNCHANGED <<retryVars, pureVars, loopVars, regVars>>

\* --- fear and greed indices ------------------------------------------------------

\* both packages hold a copy of each tool
Packages == {"agentic_investor", "investor_agent"}

\* the indicator names CNNFearGreedInput accepts
SchemaIndicators ==
    {"fear_and_greed", "fear_and_greed_historical", "put_call_options",
     "market_volatility_vix", "market_volatility_vix_50", "junk_bond_demand",
     "safe_haven_demand"}

\* one entry of the CNN response: a dict with a score, a rating and (for
\* some) a time series under "data"; or a plain value
Gauge == [isdict |-> TRUE, items |-> [score |-> 50, rating |-> "neutral"]]
GaugeWithSeries ==
    [isdict |-> TRUE, items |-> [score |-> 50, rating |-> "neutral", data |-> <<50, 51>>]]
PlainValue == [isdict |-> FALSE, x |-> 50]

\* responses of the CNN endpoint
RawOver(keys) ==
    [k \in keys |-> IF k = "fear_and_greed" THEN Gauge
                    ELSE IF k = "timestamp" THEN PlainValue
                    ELSE GaugeWithSeries]
EmptyDict == [k \in {} |-> Gauge]
CnnResponses ==
    {Ok(RawOver(SchemaIndicators)),
     Ok(RawOver(SchemaIndicators \cup {"market_momentum_sp500", "timestamp"})),
     Ok(RawOver({"fear_and_greed", "put_call_options"})),
     Ok(EmptyDict), Ok(None), ExcOf(Raised(PermanentError))}

\* CNNFearGreedInput.indicators
CnnInputs ==
    {[indicators |-> None], [indicators |-> Some(<<>>)]}
    \cup {[indicators |-> Some(<<n>>)] : n \in SchemaIndicators}
    \cup {[indicators |-> Some(s)] :
            s \in {<<"fear_and_greed", "put_call_options">>,
                   <<"put_call_options", "put_call_options">>,
                   <<"junk_bond_demand", "fear_and_greed_historical">>}}
CnnEnvs == {[package |-> p, response |-> r] : p \in Packages, r \in CnnResponses}

\* lines 52-64: every entry but fear_and_greed_historical, dicts without
\* their "data" item
WithoutSeries(raw_data) ==
    [k \in (DOMAIN raw_data) \ {"fear_and_greed_historical"} |->
        IF raw_data[k].isdict
        THEN [isdict |-> TRUE,
              items |-> [f \in (DOMAIN raw_data[k].items) \ {"data"} |->
                            raw_data[k].items[f]]]
        ELSE raw_data[k]]

\* the names of a list of indicators
NamesIn(indicators) == {indicators[k] : k \in 1..Len(indicators)}

\* lines 46-75 (investor_agent: 60-78)
cnn_result(i, raw_data) ==
    IF raw_data = None \/ DOMAIN raw_data = {}
    THEN Raise("ValueError", <<"Empty response data">>)
    ELSE LET kept == WithoutSeries(raw_data) IN
         IF i.indicators = None \/ i.indicators.v = <<>>
         THEN Ok([data |-> kept])
         ELSE LET invalid == NamesIn(i.indicators.v) \ DOMAIN kept IN
              IF invalid # {}
              THEN Raise("ValueError",
                         <<"Invalid indicators: ", invalid, ". Available: ",
                           DOMAIN kept>>)
              ELSE Ok([data |-> [k \in (DOMAIN kept) \cap NamesIn(i.indicators.v) |->
                                    kept[k]]])

\* CNNFearGreedTool.execute, the same in both packages
ExecuteCnn(i, e) ==
    /\ epc = "idle"
    /\ tool' = "get_cnn_fear_greed_index"
    /\ tin' = i
    /\ env' = e
    /\ epc' = "done"
    /\ history' = Append(history, e.response)
    /\ eout' = IF ~e.response.ok THEN e.response
               ELSE cnn_result(i, e.response.v)
    /\ UNCHANGED <<req, futures>>
    /\ UNCHANGED <<rdef, pc, attempts, sleeps, log, result, pureVars, loopVars, regVars>>

\* one entry of the alternative.me response
FngEntry(value) ==
    [value |-> value, value_classification |-> "Neutral", timestamp |-> "1698710400",
     time_until_update |-> "3600"]

\* responses of the alternative.me endpoint: with and without a "data"
\* entry, with none, one and two entries in it
CryptoResponses ==
    {Ok([name |-> "Fear and Greed Index"]),
     Ok([name |-> "Fear and Greed Index", data |-> <<>>]),
     Ok([name |-> "Fear and Greed Index", data |-> <<FngEntry("50")>>]),
     Ok([name |-> "Fear and Greed Index", data |-> <<FngEntry("70"), FngEntry("50")>>]),
     ExcOf(Raised(PermanentError))}
CryptoEnvs == {[package |-> p, response |-> r] : p \in Packages, r \in CryptoResponses}

\* agentic_investor line 44: the log line evaluates
\* data.get('data', [{}])[0].get('value_classification', 'unknown')
LogClassification(data) ==
    LET entries == IF "data" \in DOMAIN data THEN data.data ELSE << [x \in {} |-> ""] >>
    IN  IF entries = <<>>
        THEN Raise("IndexError", <<"list index out of range">>)
        ELSE Ok(IF "value_classification" \in DOMAIN entries[1]
                THEN entries[1].value_classification ELSE "unknown")

\* the log line of a package that has none
LogNothing(data) == Ok("unknown")

\* lines 45-54 (investor_agent: 42-51)
crypto_result(data) ==
    IF "data" \notin DOMAIN data \/ data.data = <<>>
    THEN Raise("ValueError", <<"Invalid response format from alternative.me API">>)
    ELSE Ok([value |-> data.data[1].value,
             classification |-> data.data[1].value_classification,
             timestamp |-> data.data[1].timestamp])

\* CryptoFearGreedTool.execute of the package
ExecuteCrypto(e) ==
    /\ epc = "idle"
    /\ tool' = "get_crypto_fear_greed_index"
    /\ tin' = [package |-> e.package]
    /\ env' = e
    /\ epc' = "done"
    /\ history' = Append(history, e.response)
    /\ eout' = IF ~e.response.ok THEN e.response
               ELSE LET logged == IF e.package = "agentic_investor"
                                  THEN LogClassification(e.response.v)
                                  ELSE LogNothing(e.response.v)
                    IN  IF ~logged.ok THEN logged ELSE crypto_result(e.response.v)
    /\ UNCHANGED <<req, futures>>
    /\ UNCHANGED <<rdef, pc, attempts, sleeps, log, result, pureVars, loopVars, regVars>>

NextTools ==
    \/ /\ epc = "idle"
       /\ \E t \in SingleFetchTools : \E i \in SingleFetchInputs(t) : BeginFetch(t, i)
    \/ /\ epc = "fetching" /\ pc = "calling"
       /\ \E o \in FetchOutcomes(tool) : FetchStep(o)
    \/ Wake
    \/ FinishFetch
    \/ /\ epc = "idle"
       /\ \E i \in HoldersInputs : BeginHolders(i)
    \/ /\ epc = "joining"
       /\ \E w \in {"inst", "fund"} : \E o \in HoldersOutcomes : SubFetch(w, o)
    \/ JoinHolders
    \/ /\ epc = "idle"
       /\ \E i \in OptionsInputs : \E e \in OptionsEnvs : BeginOptions(i, e)
    \/ /\ epc = "joining"
       /\ \E k \in 1..2 : ChainFetch(k)
    \/ JoinOptions
    \/ /\ epc = "idle"
       /\ \E i \in IndicatorInputs : \E e \in IndicatorEnvs : BeginIndicator(i, e)
    \/ FinishIndicator
    \/ /\ epc = "idle"
       /\ \E i \in IntradayInputs : \E e \in IntradayEnvs : ExecuteIntraday(i, e)
    \/ /\ epc = "idle"
       /\ \E i \in StatementsInputs : \E e \in StatementsEnvs(i) : BeginStatements(i, e)
    \/ /\ epc = "joining"
       /\ \E k \in 1..3 : StatementFetch(k)
    \/ JoinStatements
    \/ /\ epc = "idle"
       /\ \E i \in CnnInputs : \E e \in CnnEnvs : ExecuteCnn(i, e)
    \/ /\ epc = "idle"
       /\ \E e \in CryptoEnvs : ExecuteCrypto(e)

SpecTools == InitTools /\ [][NextTools]_vars

\* the ticker after validation, as execute holds it
TickerOf(i) == validate_ticker(i.ticker).v

\* the provider answered, and the answer holds nothing
EmptyAnswer(o) == o.ok /\ (o.v = None \/ IsEmpty(o.v))

\* C14: in get_price_history, get_insider_trades and get_earnings_history an
\* empty or absent provider answer is never followed by another provider
\* call or a backoff wait; when it is the first answer exactly one provider
\* call was made; and execute ends with a ValueError whose message names the
\* validated ticker.
C14_EmptyNotRetried ==
    (tool \in SingleFetchTools /\ history # <<>>) =>
        /\ \A n \in 1..Len(history) :
              EmptyAnswer(history[n]) =>
                  n = Len(history) /\ pc = "done" /\ Len(sleeps) < n
        /\ EmptyAnswer(history[1]) => attempts = 1 /\ Len(history) = 1
        /\ (epc = "done" /\ EmptyAnswer(Last(history))) =>
              /\ ~eout.ok
              /\ eout.type = "ValueError"
              /\ Len(eout.msg) = 2
              /\ eout.msg[2] = TickerOf(tin)

C14_Witness ==
    /\ tool = "get_insider_trades"
    /\ epc = "done"
    /\ tin.ticker = <<" ", "a", "k">>
    /\ history = <<[ok |-> TRUE, v |-> None]>>
    /\ attempts = 1
    /\ eout = Raise("ValueError", <<"No insider trading data found for ", <<"A", "K">>>>)

\* the provider answered with at least one row
NonEmptyAnswer == result.ok /\ result.v # None /\ ~IsEmpty(result.v)

\* C20: get_price_history queries the provider with interval "1mo" exactly
\* when period is 2y, 5y, 10y or max and with "1d" otherwise; when the
\* provider answers with a non-empty table execute succeeds, and price_data
\* is a header line followed by one line per provider row, in order, whose
\* first column is named Date and holds the row's date as YYYY-MM-DD.
C20_PriceHistoryTable ==
    (tool = "get_price_history" /\ req # None) =>
        /\ req.v.interval = "1mo" <=> tin.period \in {"2y", "5y", "10y", "max"}
        /\ req.v.interval = "1d" <=> tin.period \notin {"2y", "5y", "10y", "max"}
        /\ req.v.period = tin.period
        /\ (epc = "done" /\ NonEmptyAnswer) =>
              /\ eout.ok
              /\ Len(eout.v.price_data) = 1 + result.v.nrows
              /\ Len(eout.v.price_data) > 1
              /\ eout.v.price_data[1][1] = DateName
              /\ \A i \in 1..result.v.nrows :
                    LET cell == eout.v.price_data[i + 1][1] IN
                    /\ IsIsoDate(cell)
                    /\ Strptime(cell) = Ok(result.v.index[i])

C20_Witness ==
    /\ tool = "get_price_history"
    /\ epc = "done"
    /\ tin.period = "5y"
    /\ req # None
    /\ req.v.interval = "1mo"
    /\ result.ok
    /\ result.v # None
    /\ result.v.index = << <<2024, 1, 5>>, <<2023, 12, 31>> >>
    /\ eout.ok
    /\ eout.v.price_data[2][1] = <<"2", "0", "2", "4", "-", "0", "1", "-", "0", "5">>
    /\ attempts = 2

\* a sub-fetch came back with rows
CameBackFull(f) == f.ok /\ f.v # None /\ ~IsEmpty(f.v)
\* a sub-fetch came back missing or empty
CameBackBare(f) == f.ok /\ (f.v = None \/ IsEmpty(f.v))

HoldersDone == tool = "get_institutional_holders" /\ epc = "done" /\ req # None

\* C12: when both sub-fetches of get_institutional_holders return, execute
\* fails if both came back missing or empty; otherwise it succeeds and its
\* data holds ticker, top_n and a table for exactly the categories that came
\* back with rows, each table a header line and the first top_n rows.
C12_OneMissingTolerated ==
    (HoldersDone /\ futures.inst.ok /\ futures.fund.ok) =>
        /\ (CameBackBare(futures.inst) /\ CameBackBare(futures.fund)) =>
              ~eout.ok /\ eout.type = "ValueError"
        /\ (CameBackFull(futures.inst) \/ CameBackFull(futures.fund)) =>
              /\ eout.ok
              /\ DOMAIN eout.v.data =
                    {"ticker", "top_n"}
                        \cup (IF CameBackFull(futures.inst)
                              THEN {"institutional_holders"} ELSE {})
                        \cup (IF CameBackFull(futures.fund)
                              THEN {"mutual_fund_holders"} ELSE {})
              /\ CameBackFull(futures.inst) =>
                    Len(eout.v.data.institutional_holders)
                        = 1 + Min(tin.top_n, futures.inst.v.nrows)
              /\ CameBackFull(futures.fund) =>
                    Len(eout.v.data.mutual_fund_holders)
                        = 1 + Min(tin.top_n, futures.fund.v.nrows)

C12_Witness ==
    /\ HoldersDone
    /\ futures.inst = [ok |-> TRUE, v |-> None]
    /\ CameBackFull(futures.fund)
    /\ futures.fund.v.nrows = 2
    /\ tin.top_n = 1
    /\ eout.ok
    /\ DOMAIN eout.v.data = {"ticker", "top_n", "mutual_fund_holders"}
    /\ Len(eout.v.data.mutual_fund_holders) = 2

\* the provider lists expirations in the requested range and every chain of
\* those can be fetched, with at least one contract among them
ContractsOnOffer(i, e) ==
    /\ e.options.ok
    /\ LET valid == ValidExpirations(e.options.v, i) IN
       /\ valid # <<>>
       /\ \A k \in 1..Len(valid) : e.chains[IndexOf(e.options.v, valid[k])].ok
       /\ \E k \in 1..Len(valid) :
             ChainRows(e.chains[IndexOf(e.options.v, valid[k])].v, i.option_type) # <<>>

InvertedStrikes(i) ==
    /\ i.strike_lower # None /\ i.strike_upper # None
    /\ i.strike_lower.v > i.strike_upper.v

\* C13: when get_options is called with a valid ticker and strike_lower >
\* strike_upper and the provider has contracts on offer, execute ends with a
\* success whose options_data holds no contract line.
C13_InvertedStrikesEmpty ==
    (/\ tool = "get_options" /\ epc = "done"
     /\ validate_ticker(tin.ticker_symbol).ok
     /\ validate_date_range(tin.start_date, tin.end_date).ok
     /\ InvertedStrikes(tin)
     /\ ContractsOnOffer(tin, env)) =>
        /\ eout.ok
        /\ Len(eout.v.options_data) = 1

\* what the validators say of the input of tool t
ValidatorVerdict(t, i) ==
    IF t = "get_options"
    THEN IF validate_ticker(i.ticker_symbol).ok
         THEN validate_date_range(i.start_date, i.end_date)
         ELSE validate_ticker(i.ticker_symbol)
    ELSE validate_ticker(i.ticker)

\* C15: when the validators reject the ticker, the date or the date range
\* given to a tool, execute ends in a failure that carries the validator's
\* exception type and message unchanged, and no provider call has been made.
C15_ValidationVerbatim ==
    (epc = "done" /\ tool # "none" /\ ~ValidatorVerdict(tool, tin).ok) =>
        /\ ~eout.ok
        /\ eout.type = ValidatorVerdict(tool, tin).type
        /\ Len(eout.msg) = Len(ValidatorVerdict(tool, tin).msg)
        /\ eout.msg = ValidatorVerdict(tool, tin).msg
        /\ history = <<>>

IntradayDone == tool = "fetch_intraday_data" /\ epc = "done"

IsIntradayError(x) ==
    /\ x.ok
    /\ Len(x.v.intraday_data) >= 4
    /\ x.v.intraday_data[1] = "Error fetching data for "

\* C16: fetch_intraday_data always ends with a response, never an exception.
\* Without alpaca-py the response is the installation message; with either
\* credential unset or empty it is the error message naming the two
\* variables; in both cases no provider call is made.  When the provider
\* call fails the response is an error message that carries the failure's
\* text, after exactly one call.
C16_IntradayNeverRaises ==
    IntradayDone =>
        /\ eout.ok
        /\ ~env.alpaca =>
              eout.v.intraday_data = AlpacaMissingMsg /\ history = <<>>
        /\ (env.alpaca /\ (~Truthy(env.api_key) \/ ~Truthy(env.api_secret))) =>
              /\ IsIntradayError(eout)
              /\ eout.v.intraday_data[4] = CredentialsMsg[1]
              /\ history = <<>>
        /\ (env.alpaca /\ Truthy(env.api_key) /\ Truthy(env.api_secret)) =>
              /\ Len(history) = 1
              /\ ~env.bars.ok =>
                    IsIntradayError(eout) /\ eout.v.intraday_data[4] = env.bars.e.msg

C16_Witness ==
    /\ IntradayDone
    /\ env.alpaca
    /\ env.api_key = Some(<<"k">>)
    /\ env.api_secret = Some(<<>>)
    /\ ~env.bars.ok
    /\ history = <<>>
    /\ eout = IntradayError(tin, CredentialsMsg)

\* ---------------------------------------------------------------------------
\* Tool registry and dispatcher
\* ---------------------------------------------------------------------------
\* server.py builds a ToolService, registers the tools and serves requests.
\* Each register and dispatch call is recorded in envelope with the registry
\* before and after it.

\* the list with one name twice
StartupToolsRepeated ==
    << "get_crypto_fear_greed_index", "get_google_trends", "get_market_movers",
       "get_cnn_fear_greed_index", "get_ticker_data", "get_options",
       "get_options", "get_financial_statements", "get_earnings_history",
       "get_insider_trades", "get_institutional_holders",
       "get_nasdaq_earnings_calendar", "fetch_intraday_data",
       "calculate_technical_indicator" >>
\* the name attribute of each tool in the list given to register_tools
StartupTools ==
    << "get_crypto_fear_greed_index", "get_google_trends", "get_market_movers",
       "get_cnn_fear_greed_index", "get_ticker_data", "get_options",
       "get_price_history", "get_financial_statements", "get_earnings_history",
       "get_insider_trades", "get_institutional_holders",
       "get_nasdaq_earnings_calendar", "fetch_intraday_data",
       "calculate_technical_indicator" >>

\* tools a caller of register may add besides: one that is not in the list,
\* one that is
ExtraTools == {"AddNumbers", "get_options"}

MaxCalls == 2

Range(seq) == {seq[k] : k \in 1..Len(seq)}

\* outcomes of register and dispatch
Raises(kind, name) ==
    [raised |-> TRUE, success |-> FALSE, kind |-> kind, body |-> <<name>>]
SuccessEnvelope(payload) ==
    [raised |-> FALSE, success |-> TRUE, kind |-> "ok", body |-> payload]
FailureEnvelope(kind, msg) ==
    [raised |-> FALSE, success |-> FALSE, kind |-> kind, body |-> msg]

\* what execute does for the request a dispatch carries: the tool, and what
\* its provider holds
OneDayHistory == HistoryTable(<< <<2024, 1, 5>> >>, Num(5), 5)
ExecuteOutcome(name, scenario) ==
    CASE name = "get_price_history" /\ scenario = "rows" ->
            price_history_result(<<"A">>, OneDayHistory)
      [] name = "get_price_history" /\ scenario = "empty" ->
            price_history_result(<<"A">>, None)
      [] name = "get_price_history" /\ scenario = "blank ticker" ->
            validate_ticker(<<" ">>)
      [] name = "get_options" /\ scenario = "no attribute" ->
            ReadExpirationDate(OptionsInput(<<"a">>, 2, None, None, None, None, None, {}))
      [] name = "get_options" /\ scenario = "no expirations" ->
            Wrapped(Raise("ValueError", <<"No options available for ", <<"A">>>>))
      [] OTHER -> Ok([value |-> 3])

\* the requests a caller may send
Requests ==
    {[name |-> "nonexistent_tool", valid |-> TRUE, scenario |-> "none"],
     [name |-> "AddNumbers", valid |-> TRUE, scenario |-> "none"],
     [name |-> "get_price_history", valid |-> FALSE, scenario |-> "none"],
     [name |-> "get_price_history", valid |-> TRUE, scenario |-> "rows"],
     [name |-> "get_price_history", valid |-> TRUE, scenario |-> "empty"],
     [name |-> "get_price_history", valid |-> TRUE, scenario |-> "blank ticker"],
     [name |-> "get_options", valid |-> TRUE, scenario |-> "no attribute"],
     [name |-> "get_options", valid |-> TRUE, scenario |-> "no expirations"]}

\* register(tool)
RegisterOutcome(reg, name) ==
    IF name \in Range(reg) THEN Raises("DuplicateTool", name)
    ELSE SuccessEnvelope(<<name>>)
RegistryAfterRegister(reg, name) ==
    IF name \in Range(reg) THEN reg ELSE Append(reg, name)

\* a dispatcher that remembers the names it was asked for
RegistryAfterDispatchLearning(reg, r) ==
    IF r.name \in Range(reg) THEN reg ELSE Append(reg, r.name)
\* dispatch(name, raw_args) does not write the registry
RegistryAfterDispatch(reg, r) == reg

\* dispatch(name, raw_args), steps 1 to 5
DispatchOutcome(reg, r) ==
    IF r.name \notin Range(reg) THEN Raises("UnknownTool", r.name)
    ELSE IF ~r.valid THEN FailureEnvelope("ValidationError", <<"invalid arguments">>)
    ELSE LET out == ExecuteOutcome(r.name, r.scenario) IN
         IF out.ok THEN SuccessEnvelope(out.v)
         ELSE FailureEnvelope("ToolExecutionError", out.msg)

Registrations(from) == SelectSeq(envelope, LAMBDA c : c.op = "register" /\ c.from = from)
Dispatches == SelectSeq(envelope, LAMBDA c : c.op = "dispatch")

InitRegistry ==
    /\ registry = <<>>
    /\ phase = "startup"
    /\ envelope = <<>>
    /\ rdef = "none"
    /\ pc = "idle"
    /\ attempts = 0
    /\ history = <<>>
    /\ sleeps = <<>>
    /\ log = <<>>
    /\ result = NoResult
    /\ pfn = "none"
    /\ pin = None
    /\ pout = None
    /\ ToolsIdle /\ LoopIdle

offRegistryVars == <<retryVars, pureVars, toolVars, loopVars>>

Register(name, from) ==
    /\ registry' = RegistryAfterRegister(registry, name)
    /\ envelope' = Append(envelope,
                          [op |-> "register", from |-> from, name |-> name,
                           request |-> None, before |-> registry,
                           after |-> RegistryAfterRegister(registry, name),
                           outcome |-> RegisterOutcome(registry, name)])

\* register_tools: the next tool of the list; a duplicate ends the startup
RegisterNext ==
    /\ phase = "startup"
    /\ Len(Registrations("list")) < Len(StartupTools)
    /\ LET name == StartupTools[Len(Registrations("list")) + 1] IN
       /\ Register(name, "list")
       /\ phase' = IF RegisterOutcome(registry, name).raised THEN "failed" ELSE phase
    /\ UNCHANGED offRegistryVars

\* register called once more, before the requests are served
RegisterExtra(name) ==
    /\ phase = "startup"
    /\ Registrations("extra") = <<>>
    /\ Register(name, "extra")
    /\ UNCHANGED phase
    /\ UNCHANGED offRegistryVars

\* register_mcp_handlers and mcp.run: the list is registered, requests are served
StartServing ==
    /\ phase = "startup"
    /\ Len(Registrations("list")) = Len(StartupTools)
    /\ phase' = "serving"
    /\ UNCHANGED <<registry, envelope>>
    /\ UNCHANGED offRegistryVars

Dispatch(r) ==
    /\ phase = "serving"
    /\ Len(Dispatches) < MaxCalls
    /\ registry' = RegistryAfterDispatch(registry, r)
    /\ envelope' = Append(envelope,
                          [op |-> "dispatch", from |-> "caller", name |-> r.name,
                           request |-> r, before |-> registry,
                           after |-> RegistryAfterDispatch(registry, r),
                           outcome |-> DispatchOutcome(registry, r)])
    /\ UNCHANGED phase
    /\ UNCHANGED offRegistryVars

NextRegistry ==
    \/ RegisterNext
    \/ \E n \in ExtraTools : RegisterExtra(n)
    \/ StartServing
    \/ \E r \in Requests : Dispatch(r)

SpecRegistry == InitRegistry /\ [][NextRegistry]_vars

NoDuplicates(seq) == \A a, b \in 1..Len(seq) : seq[a] = seq[b] => a = b

\* C17: the names in the registry are pairwise distinct in every state; a
\* register call for a name already registered is answered DuplicateTool
\* and leaves the registry as it was, any other register call appends the
\* name; and while nothing but the startup list has been registered no
\* registration fails, so the fourteen tools of the list are all registered
\* when serving begins.
C17_UniqueNames ==
    /\ NoDuplicates(registry)
    /\ \A k \in 1..Len(envelope) :
          envelope[k].op = "register" =>
              IF envelope[k].name \in Range(envelope[k].before)
              THEN /\ envelope[k].outcome = Raises("DuplicateTool", envelope[k].name)
                   /\ envelope[k].after = envelope[k].before
              ELSE /\ ~envelope[k].outcome.raised
                   /\ envelope[k].after = Append(envelope[k].before, envelope[k].name)
    /\ (phase # "off" /\ Registrations("extra") = <<>>) =>
          /\ phase # "failed"
          /\ \A k \in 1..Len(envelope) : ~envelope[k].outcome.raised \/ envelope[k].op = "dispatch"
          /\ phase = "serving" => registry = StartupTools /\ Len(registry) = 14

C17_Witness ==
    /\ phase = "serving"
    /\ Len(registry) = 14
    /\ Len(Registrations("extra")) = 1
    /\ Registrations("extra")[1].outcome = Raises("DuplicateTool", "get_options")
    /\ Registrations("extra")[1].before = SubSeq(StartupTools, 1, 6)

\* the registry with which serving began
ServingRegistry == IF Dispatches = <<>> THEN registry ELSE Dispatches[1].before

\* C18: a dispatch of a name that is not registered is answered UnknownTool
\* and leaves the registry as it was; and every dispatch, however many such
\* failures came before it, is answered as the registry with which serving
\* began answers that request.
C18_UnknownToolHarmless ==
    \A k \in 1..Len(envelope) :
        envelope[k].op = "dispatch" =>
            /\ envelope[k].after = envelope[k].before
            /\ envelope[k].before = ServingRegistry
            /\ registry = ServingRegistry
            /\ envelope[k].name \notin Range(ServingRegistry) =>
                  envelope[k].outcome = Raises("UnknownTool", envelope[k].name)
            /\ envelope[k].outcome = DispatchOutcome(ServingRegistry, envelope[k].request)
            /\ envelope[k].name \in Range(StartupTools) =>
                  envelope[k].outcome.kind # "UnknownTool"

C18_Witness ==
    /\ Len(Dispatches) = 2
    /\ Dispatches[1].name = "nonexistent_tool"
    /\ Dispatches[1].outcome = Raises("UnknownTool", "nonexistent_tool")
    /\ Dispatches[2].request = [name |-> "get_price_history", valid |-> TRUE, scenario |-> "rows"]
    /\ Dispatches[2].outcome.success
    /\ registry = StartupTools

\* C19: a dispatch to a registered tool with valid arguments is never
\* answered by raising: when execute returns, the answer is a success
\* envelope with its output; when execute raises (the ValueError of
\* get_price_history for an empty history or a blank ticker, the wrapped
\* ValueError of get_options, or any other exception), the answer is a
\* failure envelope classified ToolExecutionError that carries the
\* exception's message.  Dispatch raises only UnknownTool, and register
\* only DuplicateTool.
C19_DispatchNeverRaises ==
    \A k \in 1..Len(envelope) :
        LET c == envelope[k] IN
        /\ c.outcome.raised =>
              \/ c.op = "dispatch" /\ c.outcome.kind = "UnknownTool"
                    /\ c.name \notin Range(c.before)
              \/ c.op = "register" /\ c.outcome.kind = "DuplicateTool"
        /\ (c.op = "dispatch" /\ c.name \in Range(c.before) /\ c.request.valid) =>
              /\ ~c.outcome.raised
              /\ c.outcome.success <=> ExecuteOutcome(c.name, c.request.scenario).ok
              /\ ~c.outcome.success =>
                    /\ c.outcome.kind = "ToolExecutionError"
                    /\ c.outcome.body = ExecuteOutcome(c.name, c.request.scenario).msg
              /\ (c.name = "get_price_history" /\ c.request.scenario = "empty") =>
                    /\ ~c.outcome.success
                    /\ c.outcome.body[1] = "No historical data found for "
              /\ (c.name = "get_options" /\ c.request.scenario = "no expirations") =>
                    /\ ~c.outcome.success
                    /\ c.outcome.body[1] = "Failed to retrieve options data: "

C19_Witness ==
    /\ Len(Dispatches) = 2
    /\ Dispatches[1].request = [name |-> "get_price_history", valid |-> TRUE, scenario |-> "empty"]
    /\ Dispatches[1].outcome =
          FailureEnvelope("ToolExecutionError", <<"No historical data found for ", <<"A">>>>)
    /\ Dispatches[2].request = [name |-> "get_options", valid |-> TRUE, scenario |-> "no expirations"]
    /\ Dispatches[2].outcome.kind = "ToolExecutionError"
    /\ Dispatches[2].outcome.body[1] = "Failed to retrieve options data: "

\* --- get_options: the expirations fetched ----------------------------------------

\* the expirations within the requested dates, compared as calendar dates
CalendarValid(expirations, i) ==
    SelectSeq(expirations,
              LAMBDA exp :
                  /\ (~Truthy(i.start_date)
                        \/ DateGe(Strptime(exp).v, Strptime(i.start_date.v).v))
                  /\ (~Truthy(i.end_date)
                        \/ DateGe(Strptime(i.end_date.v).v, Strptime(exp).v)))

\* the expirations whose chains execute has fetched
FetchedExpirations == IF req = None THEN <<>> ELSE req.v.expirations

\* get_options has listed the provider's expirations and has ended
OptionsListed ==
    /\ tool = "get_options" /\ epc = "done"
    /\ history # <<>> /\ env.options.ok

\* C21: when get_options is given dates that validate_date_range accepts and
\* the provider lists its expirations, the expirations whose chains are
\* fetched are exactly the listed expirations e with start_date <= e <=
\* end_date as calendar dates, an absent bound imposing no constraint.
C21_ExpirationsByCalendarDate ==
    (OptionsListed /\ validate_date_range(tin.start_date, tin.end_date).ok) =>
        FetchedExpirations = CalendarValid(env.options.v, tin)

\* --- get_options: the contracts returned -----------------------------------------

\* the chain the provider holds for an expiration it lists
ChainOf(exp) == env.chains[IndexOf(env.options.v, exp)].v

\* the contracts of the chains execute has fetched, each with the expiration
\* its chain belongs to
FetchedContracts ==
    UNION {LET rows == ChainRows(ChainOf(exp), tin.option_type) IN
           {[c |-> rows[j], expiryDate |-> exp] : j \in 1..Len(rows)} :
           exp \in Range(FetchedExpirations)}

WithinStrikes(x, i) ==
    /\ (i.strike_lower = None \/ x.c.strike >= i.strike_lower.v)
    /\ (i.strike_upper = None \/ x.c.strike <= i.strike_upper.v)

Eligible == {x \in FetchedContracts : WithinStrikes(x, tin)}

\* a line of options_data names a contract by its first field and its
\* expiration by its last
Names(line, x) == line[1] = x.c.contractSymbol /\ Last(line) = x.expiryDate
ReturnedContract(line) == CHOOSE x \in FetchedContracts : Names(line, x)

OptionsReturned == tool = "get_options" /\ epc = "done" /\ eout.ok

\* C22: when get_options succeeds, options_data holds min(num_options, number
\* of eligible contracts) contract lines, where the eligible contracts are the
\* fetched ones whose strike is within the given bounds; every line is a
\* distinct eligible contract, no line outranks an earlier one by (open
\* interest, volume), and no eligible contract left out outranks a line.
C22_TopContractsWithinStrikes ==
    OptionsReturned =>
        LET lines == Tail(eout.v.options_data) IN
        /\ Len(lines) <= tin.num_options
        /\ Len(lines) = Min(tin.num_options, Cardinality(Eligible))
        /\ \A r \in 1..Len(lines) : \E x \in Eligible : Names(lines[r], x)
        /\ \A a, b \in 1..Len(lines) :
              a < b => /\ ReturnedContract(lines[a]) # ReturnedContract(lines[b])
                       /\ ~Outranks(ReturnedContract(lines[b]).c,
                                    ReturnedContract(lines[a]).c)
        /\ \A x \in Eligible :
              (\A r \in 1..Len(lines) : ~Names(lines[r], x)) =>
                  \A r \in 1..Len(lines) :
                      ~Outranks(x.c, ReturnedContract(lines[r]).c)

C22_Witness ==
    /\ OptionsReturned
    /\ env.chains = <<Ok(ChainA), Ok(ChainB)>>
    /\ tin.strike_lower = Some(2)
    /\ tin.strike_upper = None
    /\ tin.num_options = 1
    /\ Cardinality(Eligible) = 2
    /\ Len(eout.v.options_data) = 2
    /\ eout.v.options_data[2][1] = <<"C", "2">>
    /\ Last(eout.v.options_data[2]) = Expiry2

\* some chain fetch of this execute ended in a failure
SomeChainFailed == \E k \in DOMAIN futures : ~futures[k].ok

\* C23: once get_options has joined its chain fetches, in whatever order
\* they completed, a success holds only lines whose contract (symbol and
\* strike) belongs to the chain of the expiration in the line's expiryDate
\* field; and when any chain fetch failed execute ends with a ValueError
\* that starts with 'Failed to retrieve options data' and returns no data.
C23_ChainsZippedInOrder ==
    (tool = "get_options" /\ epc = "done" /\ req # None) =>
        /\ eout.ok =>
              /\ ~SomeChainFailed
              /\ \A r \in 2..Len(eout.v.options_data) :
                    LET line == eout.v.options_data[r] IN
                    /\ Last(line) \in Range(FetchedExpirations)
                    /\ \E x \in FetchedContracts :
                          /\ Names(line, x)
                          /\ line[2] = <<DigitOf(x.c.strike), ".", "0">>
        /\ SomeChainFailed =>
              /\ ~eout.ok
              /\ eout.type = "ValueError"
              /\ eout.msg[1] = "Failed to retrieve options data: "

\* the second expiration's chain came back first
C23_Witness ==
    /\ OptionsReturned
    /\ Len(history) = 3
    /\ history[2] = Ok(ChainB)
    /\ history[3] = Ok(ChainA)
    /\ futures = <<Ok(ChainA), Ok(ChainB)>>
    /\ FetchedExpirations = <<Expiry1, Expiry2>>
    /\ tin.num_options = 2
    /\ eout.v.options_data[2][1] = <<"C", "2">>
    /\ Last(eout.v.options_data[2]) = Expiry2
    /\ eout.v.options_data[3][1] = <<"C", "1">>
    /\ Last(eout.v.options_data[3]) = Expiry1

\* --- calculate_technical_indicator: the response ---------------------------------

IndicatorDone == tool = "calculate_technical_indicator" /\ epc = "done"

\* the two forms of the response data
IsErrorForm(d) == DOMAIN d = {"error"}
IsResultForm(d) == DOMAIN d = {"price_data", "indicator_data"}

\* the provider answered with a priced table of fewer rows than the
\* indicator needs
TooFewPrices ==
    /\ pc = "done" /\ result.ok /\ result.v # None
    /\ HasClose(result.v)
    /\ result.v.nrows < MinRequired(tin)

\* C24: TechnicalIndicatorsTool.execute always ends with a response, never an
\* exception, whatever the input, the library and the provider do; the
\* response's data holds either only 'error' or exactly 'price_data' and
\* 'indicator_data'; and with fewer close prices than the indicator's
\* minimum it is the 'error' form.
C24_IndicatorNeverRaises ==
    IndicatorDone =>
        /\ eout.ok
        /\ DOMAIN eout.v = {"data"}
        /\ IsErrorForm(eout.v.data) \/ IsResultForm(eout.v.data)
        /\ (env.talib /\ validate_ticker(tin.ticker).ok /\ TooFewPrices) =>
              IsErrorForm(eout.v.data)

C24_Witness ==
    /\ IndicatorDone
    /\ env.talib
    /\ tin.indicator = "RSI"
    /\ tin.timeperiod = 3
    /\ tin.ticker = <<"a">>
    /\ TooFewPrices
    /\ result.v.nrows = 3
    /\ eout.ok
    /\ IsErrorForm(eout.v.data)
    /\ Len(eout.v.data.error) = 12
    /\ eout.v.data.error[6] = "Insufficient data for "

\* calculate_technical_indicator ended with price and indicator data
IndicatorSucceeded == IndicatorDone /\ eout.ok /\ IsResultForm(eout.v.data)

\* the text of the indicator value computed at position p of the full series
ValueAt(p, i) ==
    IF p <= Lookback(i) THEN <<"N/A">> ELSE <<"value@", DigitOf(p)>>

\* C25: on success indicator_data has one line per price_data line, at most
\* num_results of them, with the same dates in the same order; the lines are
\* the last min(num_results, n) positions of the n-row history, and every
\* indicator field holds the value computed at its line's position in the
\* full series.
C25_IndicatorRowsAligned ==
    IndicatorSucceeded =>
        LET prices == eout.v.data.price_data
            values == eout.v.data.indicator_data
            n == result.v.nrows
            rows == Len(prices) - 1
            names == SeriesNames(tin.indicator)
        IN  /\ Len(values) = Len(prices)
            /\ rows <= tin.num_results
            /\ rows = Min(tin.num_results, n)
            /\ prices[1][1] = DateName
            /\ values[1] = <<DateName>> \o names
            /\ \A r \in 1..rows :
                  /\ values[r + 1][1] = prices[r + 1][1]
                  /\ Strptime(prices[r + 1][1]) = Ok(result.v.index[n - rows + r])
                  /\ \A j \in 1..Len(names) :
                        values[r + 1][1 + j] = ValueAt(n - rows + r, tin)

C25_Witness ==
    /\ IndicatorSucceeded
    /\ tin.indicator = "SMA"
    /\ tin.timeperiod = 3
    /\ tin.num_results = 2
    /\ result.v.nrows = 4
    /\ Len(eout.v.data.indicator_data) = 3
    /\ eout.v.data.indicator_data[2] =
          << <<"2", "0", "2", "4", "-", "0", "1", "-", "0", "4">>, <<"value@", "3">> >>
    /\ eout.v.data.indicator_data[3] =
          << <<"2", "0", "2", "4", "-", "0", "1", "-", "0", "5">>, <<"value@", "4">> >>

\* --- get_financial_statements: the statements returned ---------------------------

\* execute has read the futures of its fetches
StatementsJoined ==
    tool = "get_financial_statements" /\ epc = "done" /\ req # None

\* the distinct requested types, and what the fetch read for each ended with
RequestedTypes == {tin.statement_types[k] : k \in 1..Len(tin.statement_types)}
StatementOf(t) == futures[FutureOf(tin.statement_types, t)]
CameBackEmpty(t) == StatementOf(t).ok /\ NoStatement(StatementOf(t))
CameBackGood(t) == StatementOf(t).ok /\ ~NoStatement(StatementOf(t))

\* t was requested before u
RequestedBefore(t, u) ==
    \E a, b \in 1..Len(DictKeys(tin.statement_types)) :
        /\ a < b
        /\ DictKeys(tin.statement_types)[a] = t
        /\ DictKeys(tin.statement_types)[b] = u

\* the failure that names statement type t
NamesType(t) ==
    /\ ~eout.ok
    /\ eout.type = "ValueError"
    /\ Len(eout.msg) = 4
    /\ eout.msg[1] = "No "
    /\ eout.msg[2] = t
    /\ eout.msg[4] = req.v.ticker

\* a success has exactly one table per distinct requested type, each with a
\* line-item column and at most max_periods period columns
OneTablePerType ==
    /\ DOMAIN eout.v.statements = RequestedTypes
    /\ \A t \in RequestedTypes :
          /\ Len(eout.v.statements[t]) > 1
          /\ Len(eout.v.statements[t][1]) - 1 <= tin.max_periods

\* C26 as stated: success only if every requested type came back non-empty,
\* then one table per distinct type of at most max_periods periods; and if
\* any statement is empty or absent the call fails with an error naming an
\* empty or absent statement type.
C26_AnyEmptyNamed ==
    StatementsJoined =>
        /\ eout.ok => (\A t \in RequestedTypes : CameBackGood(t)) /\ OneTablePerType
        /\ (\E t \in RequestedTypes : CameBackEmpty(t)) =>
              /\ ~eout.ok
              /\ \E t \in RequestedTypes : CameBackEmpty(t) /\ NamesType(t)

\* C26 amended: success exactly when every requested type came back
\* non-empty, then one table per distinct type of at most max_periods
\* periods; otherwise the call fails and returns no table: with the error
\* naming the first requested type that is empty or absent when every type
\* requested before it came back non-empty, and with the exception of the
\* first fetch that raised when every type before it came back non-empty.
C26_FirstEmptyNamed ==
    StatementsJoined =>
        /\ eout.ok <=> \A t \in RequestedTypes : CameBackGood(t)
        /\ eout.ok => OneTablePerType
        /\ \A t \in RequestedTypes :
              (\A u \in RequestedTypes : RequestedBefore(u, t) => CameBackGood(u)) =>
                  /\ CameBackEmpty(t) => NamesType(t)
                  /\ ~StatementOf(t).ok => eout = StatementOf(t)

C26_Witness ==
    /\ StatementsJoined
    /\ tin.statement_types = <<"income", "balance", "cash">>
    /\ futures = <<Ok(Statement(MaxPeriods)), Ok(None), Ok(EmptyStatement)>>
    /\ NamesType("balance")
    /\ eout.msg = <<"No ", "balance", " statement data found for ", <<"A">> >>

\* --- the fear and greed tools: what they return -----------------------------------

\* the provider supplies every indicator of the schema
SuppliesSchema(e) ==
    e.response.ok /\ e.response.v # None /\ SchemaIndicators \subseteq DOMAIN e.response.v

CnnDone == tool = "get_cnn_fear_greed_index" /\ epc = "done"

\* C27: when the provider supplies all of the schema's indicators,
\* get_cnn_fear_greed_index given a non-empty list S of schema names succeeds
\* with exactly the names of S as the keys of its data, and given no list
\* succeeds with every indicator the provider supplied.
C27_RequestedIndicatorsReturned ==
    (CnnDone /\ SuppliesSchema(env)) =>
        /\ eout.ok
        /\ Truthy(tin.indicators) => DOMAIN eout.v.data = NamesIn(tin.indicators.v)
        /\ tin.indicators = None => SchemaIndicators \subseteq DOMAIN eout.v.data

CryptoDone == tool = "get_crypto_fear_greed_index" /\ epc = "done"

\* C28: in both packages, when the provider's response has no 'data' entry
\* or an empty 'data' list, get_crypto_fear_greed_index fails with the
\* ValueError 'Invalid response format from alternative.me API'; otherwise
\* it returns the value, classification and timestamp of the first entry.
C28_CryptoFirstEntryOrInvalid ==
    (CryptoDone /\ env.response.ok) =>
        IF "data" \notin DOMAIN env.response.v \/ env.response.v.data = <<>>
        THEN eout = Raise("ValueError",
                          <<"Invalid response format from alternative.me API">>)
        ELSE /\ eout.ok
             /\ eout.v = [value |-> env.response.v.data[1].value,
                          classification |-> env.response.v.data[1].value_classification,
                          timestamp |-> env.response.v.data[1].timestamp]

\* --- get_trends_timeframe and format_date_string ---------------------------------

\* the shortest supported window that covers a request of so many days
ShortestWindow(days) ==
    IF days <= 1 THEN "now 1-d"
    ELSE IF days <= 7 THEN "now 7-d"
    ELSE IF days <= 30 THEN "today 1-m"
    ELSE IF days <= 90 THEN "today 3-m"
    ELSE IF days <= 365 THEN "today 12-m"
    ELSE "today 5-y"

\* C29: for every period_days the definitions of get_trends_timeframe return
\* the same window, and it is the shortest supported window that covers the
\* request: 'now 1-d' up to 1 day, 'now 7-d' up to 7, 'today 1-m' up to 30,
\* 'today 3-m' up to 90, 'today 12-m' up to 365 and 'today 5-y' beyond.
C29_TimeframesAgree ==
    Applied("get_trends_timeframe") =>
        /\ pout.agentic_investor = pout.investor_agent
        /\ pout.server = pout.investor_agent
        /\ pout.agentic_investor = ShortestWindow(pin.days)
        /\ pout.investor_agent = ShortestWindow(pin.days)

\* C30: format_date_string returns the date as YYYY-MM-DD when its input,
\* with or without a trailing Z, parses as an ISO date-time, and returns
\* None when parsing fails.
C30_FormatOrNone ==
    Applied("format_date_string") =>
        LET parsed == IF pin.date_str = None THEN Raise("TypeError", <<>>)
                      ELSE fromisoformat(RemoveZ(pin.date_str.v))
        IN  IF parsed.ok
            THEN /\ pout.returned = Some(Strftime(parsed.v))
                 /\ IsIsoDate(pout.returned.v)
            ELSE pout.returned = None

====
